---------------------------- MODULE Spec2Model ----------------------------
(***************************************************************************)
(* A model of alchemical-storage: the statement visitors (FilterMap,       *)
(* OrderByMap, NullFilterMap, JoinMap, PaginationMap) and the              *)
(* DatabaseIndex / DatabaseStorage facade that chains them.                *)
(*                                                                         *)
(* Python values are records of one shape (see Val).  A Python str is a   *)
(* sequence of lexemes: "-a,b" is <<"-", "a", ",", "b">> and              *)
(* "Model.attr" is <<"Model", ".", "attr">>, so that str.split, startswith *)
(* and slicing are computed and not assumed.  A dict is a sequence of      *)
(* <<key, value>> pairs in insertion order.                                *)
(***************************************************************************)
EXTENDS Integers, Sequences, FiniteSets, TLC

VARIABLES
    init,       \* the most recent constructor call of a mapping: [cls, args]
    visitor,    \* the mapping object it constructed, or the exception it raised
    call,       \* the visit_statement call in progress on it: arguments and outcome
    session,    \* the database behind the sqlalchemy session: the rows of each table
    transaction,\* the session's transaction: the database as last committed, and
                \* whether the transaction is still usable
    storage,    \* the DatabaseStorage or DatabaseIndex object
    operation,  \* the facade operation in progress: arguments and outcome
    requests    \* the visit_statement calls that concurrent requests have in
                \* progress on the mapping they share, each with its locals

mapVars == <<init, visitor, call, requests>>
storeVars == <<session, transaction, storage, operation>>
vars == <<init, visitor, call, session, transaction, storage, operation, requests>>

-----------------------------------------------------------------------------
(* Bounds of the model.                                                    *)

\* Most changes of the database (successful put, patch, delete) in one
\* transaction of the session.
MaxFlushes == 2

\* Most concurrent requests on one mapping.
MaxRequests == 2

\* Longest value of the order_by parameter, in lexemes.
MaxOrderByLen == 4
\* Most entries of a parameter bag.
MaxBagLen == 2

-----------------------------------------------------------------------------
(* Python values.                                                          *)

Val(t) == [t |-> t, s |-> <<>>, n |-> 0, op |-> "", path |-> <<>>, items |-> <<>>, attrs |-> <<>>]

PyNone == Val("NoneType")
PyStr(s) == [Val("str") EXCEPT !.s = s]
PyInt(n) == [Val("int") EXCEPT !.n = n]
PyList(items) == [Val("list") EXCEPT !.items = items]
PyTuple(items) == [Val("tuple") EXCEPT !.items = items]
PyDict(pairs) == [Val("dict") EXCEPT !.attrs = pairs]
\* An object of the models namespace, named by the attribute path that leads to it.
PyObj(path) == [Val("object") EXCEPT !.path = path]
\* An operator function (operator.eq, operator.ge, ColumnElement.ilike).
PyOp(name) == [Val("function") EXCEPT !.op = name]

\* A one-lexeme str.
S(x) == <<x>>

\* A sqlalchemy BinaryExpression: op(left, right).
BinaryExpression(op, left, right) ==
    [Val("BinaryExpression") EXCEPT !.op = op, !.items = <<left, right>>]

\* A sqlalchemy UnaryExpression with a modifier (desc).
UnaryExpression(modifier, element) ==
    [Val("UnaryExpression") EXCEPT !.op = modifier, !.items = <<element>>]

Range(f) == {f[i] : i \in DOMAIN f}

-----------------------------------------------------------------------------
(* dict: a sequence of <<key, value>> pairs with distinct keys.            *)

DictKeys(d) == {d[i][1] : i \in DOMAIN d}
DictHas(d, k) == k \in DictKeys(d)
DictGet(d, k) == d[CHOOSE i \in DOMAIN d : d[i][1] = k][2]

\* d[k] = v: replaces the value in place, or appends a new key.
DictSet(d, k, v) ==
    IF DictHas(d, k)
    THEN [i \in DOMAIN d |-> IF d[i][1] = k THEN <<k, v>> ELSE d[i]]
    ELSE Append(d, <<k, v>>)

-----------------------------------------------------------------------------
(* str operations.                                                         *)

\* str.split(sep): the pieces between the occurrences of sep, always at least one.
RECURSIVE SplitFrom(_, _, _, _)
SplitFrom(s, sep, i, piece) ==
    IF i > Len(s) THEN <<piece>>
    ELSE IF s[i] = sep THEN <<piece>> \o SplitFrom(s, sep, i + 1, <<>>)
    ELSE SplitFrom(s, sep, i + 1, Append(piece, s[i]))

Split(s, sep) == SplitFrom(s, sep, 1, <<>>)

\* str.startswith(prefix) for a one-lexeme prefix.
StartsWith(s, prefix) == Len(s) >= 1 /\ s[1] = prefix

\* s[1:]
DropFirst(s) == IF Len(s) = 0 THEN <<>> ELSE Tail(s)

\* sub in s, for a one-lexeme sub.
Contains(s, sub) == sub \in Range(s)

-----------------------------------------------------------------------------
(* The models namespace (tests/models.py) and attribute resolution.        *)

\* The importable module names.
ModuleNames == {S("tests.models")}

\* The attributes of the module: the mapped classes and PageParams.
ModuleAttrs == {"Model", "RelatedToModel", "OtherRelatedToModel", "CompositePkModel", "PageParams"}

\* The attributes of each class: the columns and relationships of a mapped
\* class, and the method of PageParams.
ClassAttrs(cls) ==
    CASE cls = "Model" -> {"attr", "attr2", "attr3", "related", "other_related"}
      [] cls = "RelatedToModel" -> {"attr", "model_id", "model"}
      [] cls = "OtherRelatedToModel" -> {"attr", "model_id", "model"}
      [] cls = "CompositePkModel" -> {"attr", "attr2", "attr3"}
      [] cls = "PageParams" -> {"__init__"}
      [] OTHER -> {}

\* hasattr(obj, name), obj being the module (the empty path) or an object of
\* it.  PageParams.__init__ is a function written without a docstring: its
\* __doc__ is None, which has none of the names used here.
HasAttr(path, name) ==
    CASE Len(path) = 0 -> name \in ModuleAttrs
      [] Len(path) = 1 -> name \in ClassAttrs(path[1])
      [] path = <<"PageParams", "__init__">> -> name = "__doc__"
      [] OTHER -> FALSE

\* get_module(import_from): a str is imported by name, a module is returned as it is.
\* [raised, module]: module is the empty path, the root of every attribute path.
get_module(import_from) ==
    IF import_from.t = "str"
    THEN IF import_from.s \in ModuleNames
         THEN [raised |-> "", module |-> <<>>]
         ELSE [raised |-> "ModuleNotFoundError", module |-> <<>>]
    ELSE [raised |-> "", module |-> <<>>]

\* bool(obj) of a resolved object: classes, functions and instrumented
\* attributes are truthy; None (nothing resolved yet, or an attribute whose
\* value is None) is falsy.
Truthy(get_by) == get_by.t # "NoneType"

\* The loop  for child in attr.split("."): get_by = getattr(module or get_by, child)
\* over the remaining children.  [raised, get_by].
RECURSIVE ResolveChildren(_, _)
ResolveChildren(children, get_by) ==
    IF Len(children) = 0 THEN [raised |-> "", get_by |-> get_by]
    ELSE LET child == Head(children)
             \* a lexeme sequence names an attribute only if it is one lexeme
             name == IF Len(child) = 1 THEN child[1] ELSE ""
             base == IF ~Truthy(get_by) THEN <<>> ELSE get_by.path
             \* getattr(base, name)
             value == IF Append(base, name) = <<"PageParams", "__init__", "__doc__">>
                      THEN PyNone ELSE PyObj(Append(base, name))
         IN  IF HasAttr(base, name)
             THEN ResolveChildren(Tail(children), value)
             ELSE [raised |-> "AttributeError", get_by |-> get_by]

\* Resolution of a dotted path as FilterMap, NullFilterMap and JoinMap do it.
ResolvePath(attr) == ResolveChildren(Split(attr, "."), PyNone)

-----------------------------------------------------------------------------
(* sqlalchemy.Select: an immutable value; every method returns a new one.  *)

\* select(...) with no clause yet.  columns: "entity" for select(entity),
\* "count" for select(func.count(key)).
Select(columns) ==
    [columns |-> columns, where |-> <<>>, order_by |-> <<>>, joins |-> <<>>,
     limit |-> PyNone, offset |-> PyNone]

\* Select.where(*whereclause): the criteria are ANDed to the existing ones.
Where(statement, whereclause) == [statement EXCEPT !.where = @ \o whereclause]

\* Select.order_by(*clauses): the criteria are appended to the existing ones.
OrderBy(statement, clauses) == [statement EXCEPT !.order_by = @ \o clauses]

\* Select.join(target, onclause): one more join, after the existing ones.
Join(statement, join) == [statement EXCEPT !.joins = Append(@, join)]

\* Select.limit(n) and Select.offset(n) replace the previous value.
Limit(statement, limit) == [statement EXCEPT !.limit = limit]
Offset(statement, offset) == [statement EXCEPT !.offset = offset]

\* A method call as a Mock of Select records it: call.where(*args).
MethodCall(method, args) == [method |-> method, args |-> args]

\* No statement: the value of a call that raised.
NoStatement == Select("")

\* The outcome of visit_statement: the exception raised (if any) with its message,
\* the statement returned, and the calls made on statements, in order.
Returned(result, calls) ==
    [raised |-> "", message |-> <<>>, result |-> result, calls |-> calls]
Raised(exc, message, calls) ==
    [raised |-> exc, message |-> message, result |-> NoStatement, calls |-> calls]

-----------------------------------------------------------------------------
(* Mapping objects.  One record shape for the five classes.                *)

NoVisitor ==
    [kind |-> "", raised |-> "", filters |-> <<>>, order_by_attributes |-> <<>>,
     null_identifiers |-> <<>>, joins |-> <<>>, param_name |-> <<>>,
     page_size_attr |-> <<>>, first_item_attr |-> <<>>, getter_func |-> ""]

\* A constructor that raised: no object exists.
FailedInit(kind, exc) == [NoVisitor EXCEPT !.kind = kind, !.raised = exc]

\* functools.partial with the configured operator dropped: always operator.eq.
PartialOfEq(op_, get_by) == [Val("partial") EXCEPT !.op = "eq", !.items = <<get_by>>]

\* functools.partial(op_, get_by)
Partial(op_, get_by) == [Val("partial") EXCEPT !.op = op_.op, !.items = <<get_by>>]

\* partial(op_, get_by)(value) = op_(get_by, value)
ApplyPartial(partial, value) == BinaryExpression(partial.op, partial.items[1], value)

-----------------------------------------------------------------------------
(* FilterMap                                                               *)

\* The loop of FilterMap.__init__ over filters.items(), from entry i on.
\* [raised, filters].
RECURSIVE FilterMapInitLoop(_, _, _)
FilterMapInitLoop(filters, i, acc) ==
    IF i > Len(filters) THEN [raised |-> "", filters |-> acc]
    ELSE LET filter_ == filters[i][1]
             exprs == filters[i][2]
             isTuple == exprs.t = "tuple"
         IN  IF isTuple /\ Len(exprs.items) # 2
             THEN [raised |-> "ValueError", filters |-> acc]
             ELSE LET attr == IF isTuple THEN exprs.items[1] ELSE exprs
                      op_ == IF isTuple THEN exprs.items[2] ELSE PyOp("eq")
                  IN  IF attr.t # "str"
                      THEN [raised |-> "AttributeError", filters |-> acc]
                      ELSE LET r == ResolvePath(attr.s)
                           IN  IF r.raised # ""
                               THEN [raised |-> r.raised, filters |-> acc]
                               ELSE FilterMapInitLoop(filters, i + 1,
                                        DictSet(acc, filter_, Partial(op_, r.get_by)))

\* FilterMap(filters, import_from)
FilterMapInit(filters, import_from) ==
    LET m == get_module(import_from)
    IN  IF m.raised # "" THEN FailedInit("FilterMap", m.raised)
        ELSE LET r == FilterMapInitLoop(filters, 1, <<>>)
             IN  IF r.raised # "" THEN FailedInit("FilterMap", r.raised)
                 ELSE [NoVisitor EXCEPT !.kind = "FilterMap", !.filters = r.filters]

\* FilterMap._generate_whereclauses(given_filters): the values the generator yields.
RECURSIVE FilterMapGenerateWhereclauses(_, _)
FilterMapGenerateWhereclauses(self, given_filters) ==
    IF Len(given_filters) = 0 THEN <<>>
    ELSE LET attr == Head(given_filters)[1]
             filtered_by == Head(given_filters)[2]
             rest == FilterMapGenerateWhereclauses(self, Tail(given_filters))
         IN  IF DictHas(self.filters, attr)
             THEN <<ApplyPartial(DictGet(self.filters, attr), filtered_by)>> \o rest
             ELSE rest

\* FilterMap.visit_statement(statement, params)
FilterMapVisit(self, statement, params) ==
    LET whereclauses == FilterMapGenerateWhereclauses(self, params)
    IN  Returned(Where(statement, whereclauses), <<MethodCall("where", whereclauses)>>)

-----------------------------------------------------------------------------
(* OrderByMap                                                              *)

\* The loop of OrderByMap.__init__ over order_by_attributes.items(), from entry
\* i on.  A column with a "." is split in exactly two and resolved on the
\* module; any other column is kept as a label.  [raised, order_by_attributes].
RECURSIVE OrderByMapInitLoop(_, _, _)
OrderByMapInitLoop(order_by_attributes, i, acc) ==
    IF i > Len(order_by_attributes) THEN [raised |-> "", order_by_attributes |-> acc]
    ELSE LET attr == order_by_attributes[i][1]
             column == order_by_attributes[i][2]
         IN  IF column.t # "str"
             THEN [raised |-> "TypeError", order_by_attributes |-> acc]
             ELSE IF Contains(column.s, ".")
             THEN LET parts == Split(column.s, ".")
                      model == IF Len(parts[1]) = 1 THEN parts[1][1] ELSE ""
                      model_attr == IF Len(parts[2]) = 1 THEN parts[2][1] ELSE ""
                  IN  IF Len(parts) # 2
                      THEN [raised |-> "ValueError", order_by_attributes |-> acc]
                      ELSE IF ~HasAttr(<<>>, model) \/ ~HasAttr(<<model>>, model_attr)
                      THEN [raised |-> "AttributeError", order_by_attributes |-> acc]
                      ELSE OrderByMapInitLoop(order_by_attributes, i + 1,
                               DictSet(acc, attr, PyObj(<<model, model_attr>>)))
             ELSE OrderByMapInitLoop(order_by_attributes, i + 1, DictSet(acc, attr, column))

\* OrderByMap(order_by_attributes, import_from)
OrderByMapInit(order_by_attributes, import_from) ==
    LET m == get_module(import_from)
    IN  IF m.raised # "" THEN FailedInit("OrderByMap", m.raised)
        ELSE LET r == OrderByMapInitLoop(order_by_attributes, 1, <<>>)
             IN  IF r.raised # "" THEN FailedInit("OrderByMap", r.raised)
                 ELSE [NoVisitor EXCEPT !.kind = "OrderByMap",
                                        !.order_by_attributes = r.order_by_attributes]

\* sqlalchemy.sql.expression.desc(column)
desc(column) == UnaryExpression("desc_op", column)

\* OrderByExpression with the direction dropped: always ascending.
OrderByExpressionAscending(self, order, attr) == DictGet(self.order_by_attributes, attr)

\* The sort expression OrderByMap._generate_order_by yields for a configured
\* name: order is "desc" or "asc".
OrderByExpression(self, order, attr) ==
    IF order = "desc"
    THEN desc(DictGet(self.order_by_attributes, attr))
    ELSE DictGet(self.order_by_attributes, attr)

\* OrderByMap._generate_order_by over the tokens of order_by.split(","): the
\* values yielded until the generator ends or raises.  [raised, message, yielded].
RECURSIVE OrderByMapGenerate(_, _, _)
OrderByMapGenerate(self, tokens, yielded) ==
    IF Len(tokens) = 0 THEN [raised |-> "", message |-> <<>>, yielded |-> yielded]
    ELSE LET token == Head(tokens)
             order == IF StartsWith(token, "-") THEN "desc" ELSE "asc"
             attr == IF StartsWith(token, "-") THEN DropFirst(token) ELSE token
         IN  IF DictHas(self.order_by_attributes, attr)
             THEN OrderByMapGenerate(self, Tail(tokens),
                      Append(yielded, OrderByExpression(self, order, attr)))
             ELSE [raised |-> "OrderByException",
                   message |-> <<"Unknown order_by attribute: ">> \o attr,
                   yielded |-> yielded]

\* _generate_order_by as it would be if it passed over empty tokens.
OrderByMapGenerateOrderBySkippingEmpty(self, order_by) ==
    OrderByMapGenerate(self, SelectSeq(Split(order_by, ","), LAMBDA token : Len(token) > 0), <<>>)

\* _generate_order_by as it would be if it trimmed the blanks of each token.
OrderByMapGenerateOrderByTrimming(self, order_by) ==
    OrderByMapGenerate(self, Split(SelectSeq(order_by, LAMBDA c : c # " "), ","), <<>>)

\* OrderByMap._generate_order_by(order_by)
OrderByMapGenerateOrderBy(self, order_by) ==
    OrderByMapGenerate(self, Split(order_by, ","), <<>>)

\* OrderByMap.visit_statement applying each expression as it is yielded: the
\* expressions before an unknown name are applied before the exception.
OrderByMapVisitEagerly(self, statement, params) ==
    IF ~DictHas(params, S("order_by")) THEN Returned(statement, <<>>)
    ELSE LET order_by == DictGet(params, S("order_by"))
         IN  IF order_by.t # "str" THEN Raised("AttributeError", <<>>, <<>>)
             ELSE LET g == OrderByMapGenerateOrderBy(self, order_by.s)
                      calls == [i \in DOMAIN g.yielded |-> MethodCall("order_by", <<g.yielded[i]>>)]
                  IN  IF g.raised # "" THEN Raised(g.raised, g.message, calls)
                      ELSE Returned(OrderBy(statement, g.yielded),
                                    <<MethodCall("order_by", g.yielded)>>)

\* OrderByMap.visit_statement(statement, params): the generator is exhausted
\* to build the arguments before statement.order_by is called.
OrderByMapVisit(self, statement, params) ==
    IF ~DictHas(params, S("order_by")) THEN Returned(statement, <<>>)
    ELSE LET order_by == DictGet(params, S("order_by"))
         IN  IF order_by.t # "str" THEN Raised("AttributeError", <<>>, <<>>)
             ELSE LET g == OrderByMapGenerateOrderBy(self, order_by.s)
                  IN  IF g.raised # "" THEN Raised(g.raised, g.message, <<>>)
                      ELSE Returned(OrderBy(statement, g.yielded),
                                    <<MethodCall("order_by", g.yielded)>>)

-----------------------------------------------------------------------------
(* NullFilterMap                                                           *)

\* The loop of NullFilterMap.__init__ over filters.items(), from entry i on.
\* [raised, filters].
RECURSIVE NullFilterMapInitLoop(_, _, _)
NullFilterMapInitLoop(filters, i, acc) ==
    IF i > Len(filters) THEN [raised |-> "", filters |-> acc]
    ELSE LET filter_ == filters[i][1]
             attr == filters[i][2]
         IN  IF attr.t # "str"
             THEN [raised |-> "AttributeError", filters |-> acc]
             ELSE LET r == ResolvePath(attr.s)
                  IN  IF r.raised # ""
                      THEN [raised |-> r.raised, filters |-> acc]
                      ELSE NullFilterMapInitLoop(filters, i + 1,
                               DictSet(acc, filter_, r.get_by))

\* NullFilterMap(filters, import_from, null_identifiers)
NullFilterMapInit(filters, import_from, null_identifiers) ==
    LET m == get_module(import_from)
    IN  IF m.raised # "" THEN FailedInit("NullFilterMap", m.raised)
        ELSE LET r == NullFilterMapInitLoop(filters, 1, <<>>)
             IN  IF r.raised # "" THEN FailedInit("NullFilterMap", r.raised)
                 ELSE [NoVisitor EXCEPT !.kind = "NullFilterMap", !.filters = r.filters,
                                        !.null_identifiers = null_identifiers]

\* The lexeme of the grave accent, which a TLA+ string cannot hold.
Backtick == "GRAVE ACCENT"

\* str(value), as an f-string formats it.
Format(value) ==
    CASE value.t = "str" -> value.s
      [] value.t = "int" -> <<ToString(value.n)>>
      [] value.t = "NoneType" -> <<"None">>
      [] OTHER -> <<"<", value.t, ">">>

\* NullFilterExpression comparing with the default "null" and not with the
\* identifiers given at construction.
NullFilterExpressionOfDefaults(self, attr, filtered_by) ==
    IF filtered_by = PyStr(S("null"))
    THEN BinaryExpression("is_", DictGet(self.filters, attr), PyNone)
    ELSE BinaryExpression("is_not", DictGet(self.filters, attr), PyNone)

\* The predicate NullFilterMap._generate_where_clauses yields for a configured
\* key whose value is one of the two identifiers.
NullFilterExpression(self, attr, filtered_by) ==
    IF filtered_by = self.null_identifiers[1]
    THEN BinaryExpression("is_", DictGet(self.filters, attr), PyNone)
    ELSE BinaryExpression("is_not", DictGet(self.filters, attr), PyNone)

\* NullFilterMap._generate_where_clauses(given_filters): the values yielded until
\* the generator ends or raises.  [raised, message, yielded].
RECURSIVE NullFilterMapGenerateWhereClauses(_, _, _)
NullFilterMapGenerateWhereClauses(self, given_filters, yielded) ==
    IF Len(given_filters) = 0 THEN [raised |-> "", message |-> <<>>, yielded |-> yielded]
    ELSE LET attr == Head(given_filters)[1]
             filtered_by == Head(given_filters)[2]
             null == self.null_identifiers[1]
             not_null == self.null_identifiers[2]
         IN  IF DictHas(self.filters, attr)
             THEN IF filtered_by = null \/ filtered_by = not_null
                  THEN NullFilterMapGenerateWhereClauses(self, Tail(given_filters),
                           Append(yielded, NullFilterExpression(self, attr, filtered_by)))
                  ELSE [raised |-> "NullFilterException",
                        message |-> <<"Unknown filter value: '">> \o Format(filtered_by)
                                    \o <<"' for ", Backtick>> \o attr \o <<Backtick>>,
                        yielded |-> yielded]
             ELSE NullFilterMapGenerateWhereClauses(self, Tail(given_filters), yielded)

\* NullFilterMap.visit_statement applying each predicate as it is yielded: the
\* predicates before an invalid value are applied before the exception.
NullFilterMapVisitEagerly(self, statement, params) ==
    LET g == NullFilterMapGenerateWhereClauses(self, params, <<>>)
        calls == [i \in DOMAIN g.yielded |-> MethodCall("where", <<g.yielded[i]>>)]
    IN  IF g.raised # "" THEN Raised(g.raised, g.message, calls)
        ELSE Returned(Where(statement, g.yielded), <<MethodCall("where", g.yielded)>>)

\* NullFilterMap.visit_statement(statement, params): the generator is exhausted
\* to build the arguments before statement.where is called.
NullFilterMapVisit(self, statement, params) ==
    LET g == NullFilterMapGenerateWhereClauses(self, params, <<>>)
    IN  IF g.raised # "" THEN Raised(g.raised, g.message, <<>>)
        ELSE Returned(Where(statement, g.yielded), <<MethodCall("where", g.yielded)>>)

-----------------------------------------------------------------------------
(* JoinMap                                                                 *)

\* The loop of JoinMap.__init__ over joins.items(), from entry i on: a str join
\* becomes a 1-tuple, its first item is resolved on the module and the other
\* items are kept as they are.  [raised, joins].
RECURSIVE JoinMapInitLoop(_, _, _)
JoinMapInitLoop(joins, i, acc) ==
    IF i > Len(joins) THEN [raised |-> "", joins |-> acc]
    ELSE LET attrs == joins[i][1]
             join == IF joins[i][2].t = "str" THEN PyTuple(<<joins[i][2]>>) ELSE joins[i][2]
         IN  IF join.t # "tuple"
             THEN [raised |-> "TypeError", joins |-> acc]
             ELSE IF Len(join.items) = 0
             THEN [raised |-> "IndexError", joins |-> acc]
             ELSE IF join.items[1].t # "str"
             THEN [raised |-> "AttributeError", joins |-> acc]
             ELSE LET r == ResolvePath(join.items[1].s)
                  IN  IF r.raised # ""
                      THEN [raised |-> r.raised, joins |-> acc]
                      ELSE JoinMapInitLoop(joins, i + 1,
                               DictSet(acc, attrs, <<r.get_by>> \o Tail(join.items)))

\* JoinMap(*args): the signature is __init__(self, joins, import_from), so a
\* call with another number of positional arguments is a TypeError; import_from
\* goes to importlib.import_module, which takes a module name only; joins is
\* iterated with .items().
JoinMapInit(args) ==
    IF Len(args) # 2 THEN FailedInit("JoinMap", "TypeError")
    ELSE LET joins == args[1]
             import_from == args[2]
         IN  IF import_from.t # "str" THEN FailedInit("JoinMap", "AttributeError")
             ELSE IF import_from.s \notin ModuleNames
             THEN FailedInit("JoinMap", "ModuleNotFoundError")
             ELSE IF joins.t # "dict" THEN FailedInit("JoinMap", "AttributeError")
             ELSE LET r == JoinMapInitLoop(joins.attrs, 1, <<>>)
                  IN  IF r.raised # "" THEN FailedInit("JoinMap", r.raised)
                      ELSE [NoVisitor EXCEPT !.kind = "JoinMap", !.joins = r.joins]

\* Triggered without the intersection: any key at all triggers the join.
TriggeredByAnyKey(params, attrs) == DictKeys(params) # {}

\* Triggered with issubset in place of intersection: every trigger name is needed.
TriggeredByAllNames(params, attrs) ==
    \A i \in DOMAIN attrs.items :
        attrs.items[i].t = "str" /\ attrs.items[i].s \in DictKeys(params)

\* set(params.keys()).intersection(attrs) is not empty.
Triggered(params, attrs) ==
    \E k \in DictKeys(params) : \E i \in DOMAIN attrs.items :
        attrs.items[i].t = "str" /\ attrs.items[i].s = k

\* JoinMapVisitLoop joining the statement it was given and not the one the
\* previous join returned: only the last triggered join is in the result.
RECURSIVE JoinMapVisitLoopFromGiven(_, _, _, _, _)
JoinMapVisitLoopFromGiven(self, params, i, statement, calls) ==
    IF i > Len(self.joins)
    THEN Returned(IF Len(calls) = 0 THEN statement
                  ELSE Join(statement, calls[Len(calls)].args), calls)
    ELSE IF Triggered(params, self.joins[i][1])
         THEN JoinMapVisitLoopFromGiven(self, params, i + 1, statement,
                  Append(calls, MethodCall("join", self.joins[i][2])))
         ELSE JoinMapVisitLoopFromGiven(self, params, i + 1, statement, calls)

\* The loop of JoinMap.visit_statement over self.joins.items(), from entry i on.
RECURSIVE JoinMapVisitLoop(_, _, _, _, _)
JoinMapVisitLoop(self, params, i, statement, calls) ==
    IF i > Len(self.joins) THEN Returned(statement, calls)
    ELSE LET attrs == self.joins[i][1]
             join == self.joins[i][2]
         IN  IF Triggered(params, attrs)
             THEN JoinMapVisitLoop(self, params, i + 1, Join(statement, join),
                                   Append(calls, MethodCall("join", join)))
             ELSE JoinMapVisitLoop(self, params, i + 1, statement, calls)

\* JoinMap.visit_statement(statement, params)
JoinMapVisit(self, statement, params) == JoinMapVisitLoop(self, params, 1, statement, <<>>)

-----------------------------------------------------------------------------
(* PaginationMap                                                           *)

\* PaginationMap(param_name, page_size_attr, first_item_attr, getter_func=None)
PaginationMapInit(param_name, page_size_attr, first_item_attr, getter_func) ==
    [NoVisitor EXCEPT !.kind = "PaginationMap", !.param_name = param_name,
                      !.page_size_attr = page_size_attr,
                      !.first_item_attr = first_item_attr,
                      !.getter_func = IF getter_func = "" THEN "getattr" ELSE getter_func]

\* getter_func(page_params, name) for getattr and operator.getitem.  [raised, value].
Getter(getter_func, page_params, name) ==
    IF getter_func = "getattr"
    THEN IF page_params.t = "PageParams" /\ DictHas(page_params.attrs, name)
         THEN [raised |-> "", value |-> DictGet(page_params.attrs, name)]
         ELSE [raised |-> "AttributeError", value |-> PyNone]
    ELSE IF page_params.t # "dict" THEN [raised |-> "TypeError", value |-> PyNone]
         ELSE IF DictHas(page_params.attrs, name)
         THEN [raised |-> "", value |-> DictGet(page_params.attrs, name)]
         ELSE [raised |-> "KeyError", value |-> PyNone]

\* PaginationMap.visit_statement with the two fields exchanged: limit gets the
\* first item and offset the page size.
PaginationMapVisitExchanged(self, statement, params) ==
    IF ~DictHas(params, self.param_name) THEN Returned(statement, <<>>)
    ELSE LET page_params == DictGet(params, self.param_name)
             size == Getter(self.getter_func, page_params, self.first_item_attr)
             first == Getter(self.getter_func, page_params, self.page_size_attr)
         IN  IF size.raised # "" THEN Raised(size.raised, <<>>, <<>>)
             ELSE IF first.raised # ""
             THEN Raised(first.raised, <<>>, <<MethodCall("limit", <<size.value>>)>>)
             ELSE Returned(Offset(Limit(statement, size.value), first.value),
                           <<MethodCall("limit", <<size.value>>),
                             MethodCall("offset", <<first.value>>)>>)

\* PaginationMap.visit_statement(statement, params): limit is called on the
\* statement, then offset on what limit returned.
PaginationMapVisit(self, statement, params) ==
    IF ~DictHas(params, self.param_name) THEN Returned(statement, <<>>)
    ELSE LET page_params == DictGet(params, self.param_name)
             size == Getter(self.getter_func, page_params, self.page_size_attr)
             first == Getter(self.getter_func, page_params, self.first_item_attr)
         IN  IF size.raised # "" THEN Raised(size.raised, <<>>, <<>>)
             ELSE IF first.raised # ""
             THEN Raised(first.raised, <<>>, <<MethodCall("limit", <<size.value>>)>>)
             ELSE Returned(Offset(Limit(statement, size.value), first.value),
                           <<MethodCall("limit", <<size.value>>),
                             MethodCall("offset", <<first.value>>)>>)

-----------------------------------------------------------------------------
(* The database: the tables of tests/models.py and the execution of a      *)
(* Select on them.                                                         *)

\* A row: the columns of Model and CompositePkModel (attr, attr2, attr3) and of
\* RelatedToModel and OtherRelatedToModel (attr, model_id); a column the table
\* lacks is None.
ModelRow(attr, attr2, attr3) ==
    [attr |-> PyInt(attr), attr2 |-> PyInt(attr2), attr3 |-> PyStr(attr3), model_id |-> PyNone]
RelatedRow(attr, model_id) ==
    [attr |-> PyInt(attr), attr2 |-> PyNone, attr3 |-> PyNone, model_id |-> PyInt(model_id)]

Tables == {"Model", "RelatedToModel", "OtherRelatedToModel", "CompositePkModel"}

\* A row of no table: every column is None.
NoRow == [attr |-> PyNone, attr2 |-> PyNone, attr3 |-> PyNone, model_id |-> PyNone]

\* The table a select reads: that of the entity, of its columns, or of the
\* column it counts.
EntityTable(columns) ==
    IF columns \in {"CompositePkModel", "count(CompositePkModel.attr)"}
    THEN "CompositePkModel" ELSE "Model"

RECURSIVE Concat(_)
Concat(seqs) == IF Len(seqs) = 0 THEN <<>> ELSE Head(seqs) \o Concat(Tail(seqs))

\* a LIKE b, case aside: % in the pattern stands for any lexemes.
RECURSIVE Like(_, _)
Like(s, pattern) ==
    IF Len(pattern) = 0 THEN Len(s) = 0
    ELSE IF Head(pattern) = "%"
    THEN Like(s, Tail(pattern)) \/ (Len(s) > 0 /\ Like(Tail(s), pattern))
    ELSE Len(s) > 0 /\ Head(s) = Head(pattern) /\ Like(Tail(s), Tail(pattern))

\* The value of a column (an instrumented attribute) in a row of the FROM clause.
ColumnValue(from, column) == from.row[column.path[1]][column.path[2]]

\* The value of an operand: a column, or a bound literal.
Operand(from, x) ==
    IF x.t = "object" /\ Len(x.path) = 2 THEN ColumnValue(from, x) ELSE x

\* Whether a row of the FROM clause satisfies a BinaryExpression.
Satisfies(from, expr) ==
    LET left == Operand(from, expr.items[1])
        right == Operand(from, expr.items[2])
    IN  CASE expr.op = "eq" -> left = right
          [] expr.op = "ge" -> left.t = "int" /\ right.t = "int" /\ left.n >= right.n
          [] expr.op = "le" -> left.t = "int" /\ right.t = "int" /\ left.n <= right.n
          [] expr.op = "ilike" -> left.t = "str" /\ right.t = "str" /\ Like(left.s, right.s)
          [] expr.op = "is_" -> left = right
          [] expr.op = "is_not" -> left # right
          [] OTHER -> FALSE

\* The table a join targets: a mapped class, or the class a relationship leads to.
JoinTable(join) ==
    LET target == join[1]
    IN  CASE target.t = "object" /\ Len(target.path) = 1 /\ target.path[1] \in Tables
                -> target.path[1]
          [] target.t = "object" /\ target.path = <<"Model", "related">> -> "RelatedToModel"
          [] target.t = "object" /\ target.path = <<"Model", "other_related">>
                -> "OtherRelatedToModel"
          [] OTHER -> ""

\* The ON clause of a join: the one given, or the foreign key model_id of the
\* target table (on which the relationships of Model rest too).
JoinOn(join) ==
    IF Len(join) >= 2 THEN join[2]
    ELSE BinaryExpression("eq", PyObj(<<JoinTable(join), "model_id">>), PyObj(<<"Model", "attr">>))

\* FROM ... JOIN table ON on: each row so far with each matching row of the table.
JoinRows(db, froms, table, on) ==
    Concat([i \in DOMAIN froms |->
        LET with(r) == [tables |-> froms[i].tables \cup {table},
                        row |-> [froms[i].row EXCEPT ![table] = r]]
            matching == SelectSeq(db[table], LAMBDA r : Satisfies(with(r), on))
        IN  [k \in DOMAIN matching |-> with(matching[k])]])

\* The FROM clause with the joins of a statement, from join i on.
RECURSIVE Joined(_, _, _, _)
Joined(db, froms, joins, i) ==
    IF i > Len(joins) THEN froms
    ELSE Joined(db, JoinRows(db, froms, JoinTable(joins[i]), JoinOn(joins[i])), joins, i + 1)

\* The sort key of a row for one ORDER BY criterion (an integer column, plain
\* or under desc): descending order is ascending order of the negated key.
SortKey(from, criterion) ==
    IF criterion.t = "UnaryExpression"
    THEN 0 - ColumnValue(from, criterion.items[1]).n
    ELSE ColumnValue(from, criterion).n

\* a sorts strictly before b under the ORDER BY criteria, from criterion i on.
RECURSIVE Before(_, _, _, _)
Before(a, b, order_by, i) ==
    IF i > Len(order_by) THEN FALSE
    ELSE \/ SortKey(a, order_by[i]) < SortKey(b, order_by[i])
         \/ /\ SortKey(a, order_by[i]) = SortKey(b, order_by[i])
            /\ Before(a, b, order_by, i + 1)

\* ORDER BY: a stable insertion sort of the rows.
RECURSIVE Sorted(_, _)
Sorted(froms, order_by) ==
    IF Len(froms) = 0 THEN <<>>
    ELSE LET last == froms[Len(froms)]
             rest == Sorted(SubSeq(froms, 1, Len(froms) - 1), order_by)
             \* last goes after every row that does not sort strictly after it
             k == Cardinality({j \in DOMAIN rest : ~Before(last, rest[j], order_by, 1)})
         IN  SubSeq(rest, 1, k) \o <<last>> \o SubSeq(rest, k + 1, Len(rest))

\* LIMIT and OFFSET; None is no limit and no offset.
Paged(rows, limit, offset) ==
    LET first == IF offset.t = "int" THEN offset.n ELSE 0
        skipped == SubSeq(rows, first + 1, Len(rows))
    IN  IF limit.t = "int" /\ limit.n < Len(skipped) THEN SubSeq(skipped, 1, limit.n)
        ELSE skipped

\* Result.unique(): the first occurrence of each row, in order.
RECURSIVE Unique(_)
Unique(rows) ==
    IF Len(rows) = 0 THEN <<>>
    ELSE LET rest == Unique(SubSeq(rows, 1, Len(rows) - 1))
             last == rows[Len(rows)]
         IN  IF last \in Range(rest) THEN rest ELSE Append(rest, last)

\* The rows of FROM ... JOIN ... WHERE ... of a statement, before ORDER BY,
\* LIMIT and OFFSET.
Selected(db, statement) ==
    LET table == EntityTable(statement.columns)
        base == [i \in DOMAIN db[table] |->
                    [tables |-> {table},
                     row |-> [c \in Tables |-> IF c = table THEN db[table][i] ELSE NoRow]]]
        froms == Joined(db, base, statement.joins, 1)
    IN  SelectSeq(froms, LAMBDA f : \A i \in DOMAIN statement.where :
                                       Satisfies(f, statement.where[i]))

\* session.execute(statement) for a select of an entity (or of its columns):
\* the entity's row of every row of the result, in order.
Execute(db, statement) ==
    LET rows == Paged(Sorted(Selected(db, statement), statement.order_by),
                      statement.limit, statement.offset)
    IN  [i \in DOMAIN rows |-> rows[i].row[EntityTable(statement.columns)]]

\* session.execute(statement) for select(count(column)): one row holding the
\* number of selected rows (the counted column, a key, is never NULL), unless
\* LIMIT or OFFSET cut that row off.
ExecuteCount(db, statement) ==
    Paged(<<Len(Selected(db, statement))>>, statement.limit, statement.offset)

-----------------------------------------------------------------------------
(* DatabaseIndex and DatabaseStorage                                       *)

\* visitor.visit_statement(statement, params), by the class of the visitor.
VisitStatement(self, statement, params) ==
    CASE self.kind = "FilterMap" -> FilterMapVisit(self, statement, params)
      [] self.kind = "OrderByMap" -> OrderByMapVisit(self, statement, params)
      [] self.kind = "NullFilterMap" -> NullFilterMapVisit(self, statement, params)
      [] self.kind = "JoinMap" -> JoinMapVisit(self, statement, params)
      [] self.kind = "PaginationMap" -> PaginationMapVisit(self, statement, params)

\* The loop as it would be if every visitor were handed the statement the
\* loop started with.
RECURSIVE ApplyVisitorsToGiven(_, _, _, _)
ApplyVisitorsToGiven(visitors, i, stmt, kwargs) ==
    IF i > Len(visitors) THEN [raised |-> "", result |-> stmt, visits |-> <<>>]
    ELSE LET r == VisitStatement(visitors[i], stmt, kwargs)
             visit == [visitor |-> i, statement |-> stmt, params |-> kwargs]
         IN  IF r.raised # ""
             THEN [raised |-> r.raised, result |-> NoStatement, visits |-> <<visit>>]
             ELSE LET rest == ApplyVisitorsToGiven(visitors, i + 1, stmt, kwargs)
                  IN  [rest EXCEPT !.visits = <<visit>> \o @,
                                   !.result = IF i = Len(visitors) THEN r.result ELSE @]

\* for visitor in self._statement_visitors: stmt = visitor.visit_statement(stmt, kwargs)
\* from visitor i on.  An exception of a visitor ends the loop.  [raised,
\* result, visits]: visits lists the calls of visit_statement in the order
\* they were made, each with the visitor's place in the list and the
\* arguments it was given.
RECURSIVE ApplyVisitors(_, _, _, _)
ApplyVisitors(visitors, i, stmt, kwargs) ==
    IF i > Len(visitors) THEN [raised |-> "", result |-> stmt, visits |-> <<>>]
    ELSE LET r == VisitStatement(visitors[i], stmt, kwargs)
             visit == [visitor |-> i, statement |-> stmt, params |-> kwargs]
         IN  IF r.raised # ""
             THEN [raised |-> r.raised, result |-> NoStatement, visits |-> <<visit>>]
             ELSE LET rest == ApplyVisitors(visitors, i + 1, r.result, kwargs)
                  IN  [rest EXCEPT !.visits = <<visit>> \o @]

NoStorage == [cls |-> "", raised |-> "", entity |-> "", _attr |-> <<>>, _statement_visitors |-> <<>>]

\* DatabaseIndex(session, entity, count_key, statement_visitors): entity is
\* "Model", or "columns" for the tuple of the columns of Model.
DatabaseIndexInit(entity, statement_visitors) ==
    [NoStorage EXCEPT !.cls = "DatabaseIndex", !.entity = entity,
                      !._statement_visitors = statement_visitors]

\* DatabaseStorage(session, entity, storage_schema, primary_key, statement_visitors)
DatabaseStorageInit(entity, primary_key, statement_visitors) ==
    [NoStorage EXCEPT !.cls = "DatabaseStorage", !.entity = entity,
                      !._attr = IF primary_key.t = "str" THEN <<primary_key.s>>
                                ELSE [i \in DOMAIN primary_key.items |-> primary_key.items[i].s],
                      !._statement_visitors = statement_visitors]

\* The outcome of a facade operation: the exception raised, or the value
\* returned (entities or rows as a list in value, a count in count, a bool in
\* found), with the database after it and whether the transaction survived;
\* and the calls of visit_statement it made last and the statement it then
\* executed.
OpOutcome(db) ==
    [raised |-> "", value |-> <<>>, count |-> 0, found |-> FALSE, db |-> db, active |-> TRUE,
     visits |-> <<>>, executed |-> NoStatement]
\* The outcome of an operation after its loop over the visitors.
OpVisited(outcome, v) == [outcome EXCEPT !.visits = v.visits, !.executed = v.result]
OpReturned(db, value) == [OpOutcome(db) EXCEPT !.value = value]
OpRaised(db, exc) == [OpOutcome(db) EXCEPT !.raised = exc]

\* DatabaseIndex.get(**kwargs): the visitors are applied to select(entity), in
\* order, and the result is executed; unique() drops repeated entities (or
\* repeated rows when the entity is a tuple of columns).
DatabaseIndexGet(self, db, kwargs) ==
    LET Executed(v) ==
            IF v.raised # "" THEN OpVisited(OpRaised(db, v.raised), v)
            ELSE OpVisited(OpReturned(db, Unique(Execute(db, v.result))), v)
    IN  Executed(ApplyVisitors(self._statement_visitors, 1, Select(self.entity), kwargs))

\* DatabaseIndex.count(**kwargs): the visitors are applied to
\* select(count(count_key(entity))) and scalar_one() takes the one row.
CountColumn(self) ==
    IF EntityTable(self.entity) = "CompositePkModel"
    THEN "count(CompositePkModel.attr)" ELSE "count(Model.attr)"

DatabaseIndexCount(self, db, kwargs) ==
    LET ScalarOne(rows) ==
            IF Len(rows) = 0 THEN OpRaised(db, "NoResultFound")
            ELSE [OpOutcome(db) EXCEPT !.count = rows[1]]
        Executed(v) ==
            IF v.raised # "" THEN OpVisited(OpRaised(db, v.raised), v)
            ELSE OpVisited(ScalarOne(ExecuteCount(db, v.result)), v)
    IN  Executed(ApplyVisitors(self._statement_visitors, 1, Select(CountColumn(self)), kwargs))

\* _convert_identity as it would be without the exception for str and bytes:
\* every iterable becomes the tuple of its elements.
ConvertIdentityOfAnyIterable(identity) ==
    LET iterable == identity.t \in {"tuple", "list", "dict", "str", "bytes"}
    IN  IF ~iterable THEN PyTuple(<<identity>>)
        ELSE IF identity.t = "dict"
        THEN PyTuple([i \in DOMAIN identity.attrs |-> PyStr(identity.attrs[i][1])])
        ELSE IF identity.t \in {"str", "bytes"}
        THEN PyTuple([i \in DOMAIN identity.s |-> [identity EXCEPT !.s = <<identity.s[i]>>]])
        ELSE PyTuple(identity.items)

\* The decorator _convert_identity: a value that is not iterable, and a str or
\* bytes, is wrapped in a 1-tuple; any other iterable becomes tuple(identity)
\* (for a dict, its keys).
ConvertIdentity(identity) ==
    LET \* isinstance(identity, Iterable)
        iterable == identity.t \in {"tuple", "list", "dict", "str", "bytes"}
    IN  IF ~iterable \/ identity.t \in {"str", "bytes"}
        THEN PyTuple(<<identity>>)
        ELSE IF identity.t = "dict"
        THEN PyTuple([i \in DOMAIN identity.attrs |-> PyStr(identity.attrs[i][1])])
        ELSE PyTuple(identity.items)

\* zip(self._attr, identity): as many pairs as the shorter of the two has.
Zip(names, values) ==
    [i \in 1..(IF Len(names) < Len(values) THEN Len(names) ELSE Len(values)) |->
        <<names[i], values[i]>>]

\* getattr(self.entity, _attr) == id for _attr, id in zip(self._attr, identity)
IdentityClauses(self, identity) ==
    LET pairs == Zip(self._attr, identity.items)
    IN  [i \in DOMAIN pairs |->
            BinaryExpression("eq", PyObj(<<EntityTable(self.entity), pairs[i][1][1]>>),
                             pairs[i][2])]

\* DatabaseStorage.__contains__(identity), under _convert_identity: whether
\* select(count(first key column)).where(identity clauses) is more than 0.
StorageContains(self, db, identity) ==
    LET key == ConvertIdentity(identity)
        stmt == Where(Select(CountColumn(self)), IdentityClauses(self, key))
        result == ExecuteCount(db, stmt)[1]
    IN  IF result # 0 THEN result > 0 ELSE FALSE

\* DatabaseStorage.get(identity, **kwargs), under _convert_identity: the first
\* row of select(entity).where(identity clauses) after the visitors, or
\* NotFoundError.
StorageGet(self, db, identity, kwargs) ==
    LET key == ConvertIdentity(identity)
        stmt == Where(Select(self.entity), IdentityClauses(self, key))
        First(rows) ==
            IF Len(rows) > 0 THEN OpReturned(db, <<rows[1]>>)
            ELSE OpRaised(db, "NotFoundError")
        Executed(v) ==
            IF v.raised # "" THEN OpVisited(OpRaised(db, v.raised), v)
            ELSE OpVisited(First(Execute(db, v.result)), v)
    IN  Executed(ApplyVisitors(self._statement_visitors, 1, stmt, kwargs))

\* The marshmallow schema of an entity (SQLAlchemyAutoSchema, load_instance):
\* one field per column, an Integer for attr and attr2 and a String for attr3;
\* a column that is not nullable is required, unless it is the autoincrement
\* key of its table (the single integer key of Model).
\* Schema.load validates before it builds anything; the exception it raises,
\* or "".
SchemaValidate(entity, data, partial) ==
    LET fields == {S("attr"), S("attr2"), S("attr3")}
        required == IF EntityTable(entity) = "CompositePkModel" THEN fields
                    ELSE {S("attr2"), S("attr3")}
        accepts(field, value) ==
            IF field = S("attr3") THEN value.t = "str" ELSE value.t = "int"
    IN  IF \/ \E i \in DOMAIN data : data[i][1] \notin fields
           \/ \E i \in DOMAIN data : ~accepts(data[i][1], data[i][2])
           \/ ~partial /\ ~(required \subseteq DictKeys(data))
        THEN "ValidationError" ELSE ""

\* setattr(instance, key, value) for key, value in data.items(), from entry i on.
RECURSIVE SetAttrs(_, _, _)
SetAttrs(instance, data, i) ==
    IF i > Len(data) THEN instance
    ELSE SetAttrs([instance EXCEPT ![data[i][1][1]] = data[i][2]], data, i + 1)

\* The key of a row, and the order of two rows by their keys.  The tables are
\* kept in the order of their keys, the order in which SQLite scans them.
KeyOf(table, r) ==
    IF table = "CompositePkModel" THEN <<r.attr, r.attr2>> ELSE <<r.attr>>
RECURSIVE KeyBefore(_, _, _)
KeyBefore(a, b, i) ==
    IF i > Len(a) THEN FALSE
    ELSE a[i].n < b[i].n \/ (a[i].n = b[i].n /\ KeyBefore(a, b, i + 1))

\* INSERT: the row takes its place among the rows; a Model row without a key
\* gets the next rowid.
Inserted(db, table, r) ==
    LET rows == db[table]
        next == IF Len(rows) = 0 THEN 1 ELSE rows[Len(rows)].attr.n + 1
        new == IF r.attr = PyNone THEN [r EXCEPT !.attr = PyInt(next)] ELSE r
        k == Cardinality({j \in DOMAIN rows : KeyBefore(KeyOf(table, rows[j]), KeyOf(table, new), 1)})
    IN  [db EXCEPT ![table] = SubSeq(rows, 1, k) \o <<new>> \o SubSeq(rows, k + 1, Len(rows))]

\* DELETE as it would be with the first key column as its only criterion.
DeletedByFirstKeyColumn(db, table, r) ==
    [c \in Tables |->
        IF c = table THEN SelectSeq(db[c], LAMBDA x : x.attr # r.attr)
        ELSE IF table = "Model" /\ c \in {"RelatedToModel", "OtherRelatedToModel"}
        THEN SelectSeq(db[c], LAMBDA x : x.model_id # r.attr)
        ELSE db[c]]

\* DELETE of a row; the relationships of Model cascade to the rows that refer to it.
Deleted(db, table, r) ==
    [c \in Tables |->
        IF c = table THEN SelectSeq(db[c], LAMBDA x : x # r)
        ELSE IF table = "Model" /\ c \in {"RelatedToModel", "OtherRelatedToModel"}
        THEN SelectSeq(db[c], LAMBDA x : x.model_id # r.attr)
        ELSE db[c]]

\* put as it would be if it loaded the data before it looked for the identity.
StoragePutLoadingFirst(self, db, identity, data) ==
    LET key == ConvertIdentity(identity)
        pairs == Zip(self._attr, key.items)
        RECURSIVE Merged(_, _)
        Merged(d, i) == IF i > Len(pairs) THEN d
                        ELSE Merged(DictSet(d, pairs[i][1], pairs[i][2]), i + 1)
        loaded == Merged(data, 1)
    IN  IF SchemaValidate(self.entity, loaded, FALSE) # ""
        THEN OpRaised(db, SchemaValidate(self.entity, loaded, FALSE))
        ELSE IF StorageContains(self, db, key) THEN OpRaised(db, "ConflictError")
        ELSE LET after == Inserted(db, EntityTable(self.entity), SetAttrs(NoRow, loaded, 1))
                 new == CHOOSE r \in Range(after[EntityTable(self.entity)]) :
                           r \notin Range(db[EntityTable(self.entity)])
             IN  OpReturned(after, <<new>>)

\* DatabaseStorage.put(identity, data), under _convert_identity.
StoragePut(self, db, identity, data) ==
    LET key == ConvertIdentity(identity)
        \* {**data, **dict(zip(self._attr, identity))}
        pairs == Zip(self._attr, key.items)
        RECURSIVE Merged(_, _)
        Merged(d, i) == IF i > Len(pairs) THEN d
                        ELSE Merged(DictSet(d, pairs[i][1], pairs[i][2]), i + 1)
        loaded == Merged(data, 1)
    IN  IF StorageContains(self, db, key) THEN OpRaised(db, "ConflictError")
        ELSE IF SchemaValidate(self.entity, loaded, FALSE) # ""
        THEN OpRaised(db, SchemaValidate(self.entity, loaded, FALSE))
        ELSE LET after == Inserted(db, EntityTable(self.entity), SetAttrs(NoRow, loaded, 1))
                 new == CHOOSE r \in Range(after[EntityTable(self.entity)]) :
                           r \notin Range(db[EntityTable(self.entity)])
             IN  OpReturned(after, <<new>>)

\* DatabaseStorage.patch(identity, data), under _convert_identity.  committed
\* is the database the transaction started from: a flush that breaks the
\* uniqueness of the key rolls back to it.
StoragePatch(self, db, committed, identity, data) ==
    IF ~StorageContains(self, db, ConvertIdentity(identity))
    THEN OpRaised(db, "NotFoundError")
    ELSE LET table == EntityTable(self.entity)
             \* the instance is loaded with the data and flushed, then fetched again
             Flushed(instance, updated, others) ==
                 IF \E x \in Range(others) : KeyOf(table, x) = KeyOf(table, updated)
                 THEN \* the flush fails and the session rolls the transaction back
                      [OpOutcome(committed) EXCEPT !.raised = "IntegrityError",
                                                   !.active = FALSE]
                 ELSE StorageGet(self, Inserted([db EXCEPT ![table] = others], table, updated),
                                 ConvertIdentity(identity), <<>>)
             Loaded(found) ==
                 IF found.raised # "" THEN found
                 ELSE IF SchemaValidate(self.entity, data, TRUE) # ""
                 THEN OpRaised(db, SchemaValidate(self.entity, data, TRUE))
                 ELSE Flushed(found.value[1], SetAttrs(found.value[1], data, 1),
                              SelectSeq(db[table], LAMBDA x : x # found.value[1]))
         IN  Loaded(StorageGet(self, db, ConvertIdentity(identity), <<>>))

\* DatabaseStorage.delete(identity), under _convert_identity.  session.delete
\* marks the instance and delete does not flush; the session of the tests
\* (sessionmaker's default, autoflush) flushes before its next query, so the
\* row is gone for every operation that follows.
StorageDelete(self, db, identity) ==
    IF ~StorageContains(self, db, ConvertIdentity(identity))
    THEN OpRaised(db, "NotFoundError")
    ELSE LET Marked(found) ==
                 IF found.raised # "" THEN found
                 ELSE OpReturned(Deleted(db, EntityTable(self.entity), found.value[1]),
                                 found.value)
         IN  Marked(StorageGet(self, db, ConvertIdentity(identity), <<>>))

-----------------------------------------------------------------------------
(* The inputs of the constructors and of visit_statement.                  *)

\* import_from: the module's name, or the module object itself.
ImportFroms == {PyStr(S("tests.models")), [Val("module") EXCEPT !.s = S("tests.models")]}

\* The statements handed to visit_statement: a bare select, and one that
\* already has a clause of every kind.
LoadedSelect ==
    [columns |-> "entity",
     where |-> <<BinaryExpression("eq", PyObj(<<"Model", "attr3">>), PyStr(S("test1")))>>,
     order_by |-> <<PyObj(<<"Model", "attr3">>)>>,
     joins |-> << <<PyObj(<<"OtherRelatedToModel">>)>> >>,
     limit |-> PyInt(2), offset |-> PyInt(1)]
Statements == {Select("entity"), LoadedSelect}

\* The parameter bags over a set of <<key, value>> pairs: the dicts of at most
\* MaxBagLen entries, in every insertion order.
BagsOf(pairs) ==
    {b \in UNION {[1..n -> pairs] : n \in 0..MaxBagLen} :
        \A i, j \in DOMAIN b : i # j => b[i][1] # b[j][1]}

\* FilterMap configurations (tests/test_filter.py, tests/test_storage.py), one
\* with a path that does not resolve, one with a path that leads through an
\* attribute whose value is None, and the empty one.
FilterConfigs ==
    { << <<S("filter_name"), PyStr(<<"Model", ".", "attr">>)>>,
         <<S("filter_name2"), PyTuple(<<PyStr(<<"Model", ".", "attr2">>), PyOp("ge")>>)>> >>,
      << <<S("attr3_like"), PyTuple(<<PyStr(<<"Model", ".", "attr3">>), PyOp("ilike")>>)>>,
         <<S("filter_name"), PyStr(<<"RelatedToModel", ".", "attr">>)>> >>,
      << <<S("filter_name"), PyStr(<<"Model", ".", "bad">>)>> >>,
      << <<S("filter_name"), PyStr(<<"PageParams", ".", "__init__", ".", "__doc__",
                                     ".", "Model", ".", "attr">>)>> >>,
      << >> }

\* Bags for FilterMap and NullFilterMap: configured and unconfigured keys with
\* the default sentinels of NullFilterMap and another str as values, and a
\* key that only another mapping recognises.
FilterBags ==
    BagsOf(({S("filter_name"), S("filter_name2"), S("filter_name3")}
                \X {PyStr(S("null")), PyStr(S("not-null")), PyStr(S("unknown_value"))})
           \cup {<<S("order_by"), PyStr(S("a"))>>})

\* The lexemes of order_by values: two names, the descending prefix, the
\* separator and a blank.
OrderByLexemes == {"a", "b", "-", ",", " "}

\* Every str of at most MaxOrderByLen lexemes.
OrderByStrings == UNION {[1..n -> OrderByLexemes] : n \in 0..MaxOrderByLen}

\* OrderByMap configurations (tests/test_filter.py): two columns; one label;
\* a column that does not resolve; a path of three segments that does not
\* resolve and one that does; and the empty str as a public name.
OrderByConfigs ==
    { << <<S("a"), PyStr(<<"Model", ".", "attr">>)>>,
         <<S("b"), PyStr(<<"Model", ".", "attr2">>)>> >>,
      << <<<<>>, PyStr(<<"Model", ".", "attr">>)>>,
         <<S("b"), PyStr(<<"Model", ".", "attr2">>)>> >>,
      << <<S("a"), PyStr(S("col_label"))>> >>,
      << <<S("a"), PyStr(S("col_label"))>>,
         <<S("b"), PyStr(<<"Model", ".", "bad">>)>> >>,
      << <<S("a"), PyStr(<<"Model", ".", "related", ".", "attr">>)>> >>,
      << <<S("a"), PyStr(<<"PageParams", ".", "__init__", ".", "__doc__">>)>> >> }

\* Bags for OrderByMap: order_by alone with any value; and order_by with one
\* of two values among a key that is one of its public names and a key that
\* only another mapping recognises.
OrderByBags ==
    {<< <<S("order_by"), PyStr(s)>> >> : s \in OrderByStrings}
    \cup BagsOf({<<S("order_by"), PyStr(<<"a">>)>>, <<S("order_by"), PyStr(<<"-", "b", ",", "a">>)>>,
                 <<S("a"), PyStr(S("b"))>>, <<S("filter_name"), PyStr(S("null"))>>})

\* NullFilterMap configurations (tests/test_filter.py), one with a path that
\* does not resolve and one with a path that leads through None.
NullFilterConfigs ==
    { << <<S("filter_name"), PyStr(<<"Model", ".", "attr">>)>>,
         <<S("filter_name2"), PyStr(<<"Model", ".", "attr2">>)>> >>,
      << <<S("filter_name"), PyStr(<<"Model", ".", "attr">>)>>,
         <<S("filter_name2"), PyStr(<<"Model", ".", "bad">>)>> >>,
      << <<S("filter_name"), PyStr(<<"PageParams", ".", "__init__", ".", "__doc__",
                                     ".", "Model", ".", "attr">>)>> >> }

\* null_identifiers: the default of the constructor, and a pair of the caller's.
DefaultNullIdentifiers == <<PyStr(S("null")), PyStr(S("not-null"))>>
NullIdentifierPairs ==
    {DefaultNullIdentifiers, <<PyStr(S("unknown_value")), PyStr(S("null"))>>}

\* A tuple of str.
Names(names) == PyTuple([i \in DOMAIN names |-> PyStr(S(names[i]))])

\* A dotted path as a str.
Dotted(cls, attr) == PyStr(<<cls, ".", attr>>)

\* The on-criteria of tests/test_storage.py: RelatedToModel.model_id == Model.attr.
OnCriteria ==
    BinaryExpression("eq", PyObj(<<"RelatedToModel", "model_id">>), PyObj(<<"Model", "attr">>))

\* JoinMap in the form of its signature and of tests/test_storage.py:
\* JoinMap({trigger names: join, ...}, import_from).
JoinMapDictArgs ==
    { <<PyDict(<< <<Names(<<"join_param">>), PyStr(S("RelatedToModel"))>> >>),
        PyStr(S("tests.models"))>>,
      <<PyDict(<< <<Names(<<"join_param">>), PyTuple(<<PyStr(S("RelatedToModel")), OnCriteria>>)>> >>),
        PyStr(S("tests.models"))>>,
      <<PyDict(<< <<Names(<<"join_param", "other_param">>), PyTuple(<<Dotted("Model", "related")>>)>>,
                  <<Names(<<"join_param2", "join_param">>),
                    PyTuple(<<PyStr(S("OtherRelatedToModel")), Dotted("Model", "other_related")>>)>> >>),
        PyStr(S("tests.models"))>>,
      <<PyDict(<< <<Names(<<"join_param">>), Dotted("Model", "bad")>> >>),
        PyStr(S("tests.models"))>>,
      <<PyDict(<< <<Names(<<"join_param">>), PyTuple(<<PyObj(<<"RelatedToModel">>)>>)>> >>),
        PyStr(S("tests.models"))>>,
      <<PyDict(<< <<Names(<<"join_param">>),
                    PyStr(<<"PageParams", ".", "__init__", ".", "__doc__", ".", "Model">>)>> >>),
        PyStr(S("tests.models"))>>,
      <<PyDict(<< <<Names(<<"join_param">>), PyStr(S("RelatedToModel"))>> >>),
        [Val("module") EXCEPT !.s = S("tests.models")]>> }

\* JoinMap in the form of tests/test_join.py and tests/index/test_index.py:
\* JoinMap(import_from, trigger_names, join_1, ..., join_n).
JoinMapOrderedArgs ==
    { <<PyStr(S("tests.models")), Names(<<"join_param">>), PyTuple(<<PyStr(S("RelatedToModel"))>>)>>,
      <<PyStr(S("tests.models")), Names(<<"join_param">>), PyStr(S("RelatedToModel"))>>,
      <<PyStr(S("tests.models")), Names(<<"join_param">>),
        PyTuple(<<PyStr(S("RelatedToModel")), Dotted("Model", "related")>>),
        PyTuple(<<PyStr(S("OtherRelatedToModel")), Dotted("Model", "other_related")>>)>>,
      <<PyStr(S("tests.models")), Names(<<"join_param">>),
        PyTuple(<<PyObj(<<"RelatedToModel">>), PyObj(<<"Model", "related">>)>>)>>,
      <<PyStr(S("tests.models")), Names(<<"other_param">>), PyTuple(<<PyStr(S("RelatedToModel"))>>)>>,
      <<PyStr(S("tests.models")), Names(<<"join_param">>)>> }

\* Bags for JoinMap: trigger names and a key that triggers nothing.
JoinBags ==
    BagsOf({S("join_param"), S("other_param"), S("join_param2"), S("filter_name")}
           \X {PyStr(S("join_param"))})

\* tests.models.PageParams(page_size, first_item)
PageParams(page_size, first_item) ==
    [Val("PageParams") EXCEPT
        !.attrs = << <<S("page_size"), PyInt(page_size)>>, <<S("first_item"), PyInt(first_item)>> >>]

\* Page descriptors: PageParams objects, the same fields as a dict, and a str.
PageDescriptors ==
    {PageParams(page_size, first_item) : page_size \in {1, 5}, first_item \in {0, 1}}
    \cup {PyDict(PageParams(5, 1).attrs), PyStr(S("5"))}

\* PaginationMap configurations: <<param_name, page_size_attr, first_item_attr,
\* getter_func>>, getter_func "" being the default None.
PaginationConfigs ==
    { <<S("page_params"), S("page_size"), S("first_item"), "">>,
      <<S("page_params"), S("page_size"), S("first_item"), "getitem">>,
      <<S("page"), S("first_item"), S("page_size"), "">>,
      <<S("page"), S("page_size"), S("missing"), "">> }

\* Bags for PaginationMap: a page descriptor under either key, and another key.
PaginationBags ==
    BagsOf(({S("page_params"), S("page")} \X PageDescriptors)
           \cup {<<S("filter_name"), PyStr(S("null"))>>})

\* The visitors of tests/test_storage.py: entity_filters, entity_order_by and
\* joins, and a PaginationMap as tests/test_pagination.py builds it.
entity_filters ==
    FilterMapInit(<< <<S("attr3_like"), PyTuple(<<Dotted("Model", "attr3"), PyOp("ilike")>>)>>,
                     <<S("related_attr"), Dotted("RelatedToModel", "attr")>> >>,
                  PyStr(S("tests.models")))
entity_order_by ==
    OrderByMapInit(<< <<S("attr2"), Dotted("Model", "attr2")>> >>, PyStr(S("tests.models")))
entity_joins ==
    JoinMapInit(<<PyDict(<< <<Names(<<"related_attr">>),
                              PyTuple(<<PyStr(S("RelatedToModel")), OnCriteria>>)>> >>),
                  PyStr(S("tests.models"))>>)

\* statement_visitors: the list of the tests, that list with a PaginationMap
\* at its end, the list without the FilterMap (related_attr then triggers the
\* join and filters nothing), and none.
VisitorLists ==
    { <<entity_filters, entity_order_by, entity_joins>>,
      <<entity_filters, entity_order_by, entity_joins,
        PaginationMapInit(S("page_params"), S("page_size"), S("first_item"), "")>>,
      <<entity_order_by, entity_joins>>,
      <<>> }

\* The visitors and the database of TestDatabaseStorageWithCompositePk.
composite_visitors ==
    << FilterMapInit(<< <<S("attr3_like"),
                          PyTuple(<<Dotted("CompositePkModel", "attr3"), PyOp("ilike")>>)>> >>,
                     PyStr(S("tests.models"))),
       OrderByMapInit(<< <<S("attr"), Dotted("CompositePkModel", "attr")>>,
                         <<S("attr2"), Dotted("CompositePkModel", "attr2")>> >>,
                      PyStr(S("tests.models"))) >>
existing_composite_models ==
    [c \in Tables |->
        IF c = "CompositePkModel"
        THEN <<ModelRow(1, 1, <<"test", "1">>), ModelRow(1, 2, <<"test", "2">>)>>
        ELSE <<>>]

\* The database of the tests (existing_models: two Model rows and one
\* RelatedToModel row of the first), the empty one, and one of three Model
\* rows whose attr2 are not in the order of their keys, two with related rows.
existing_models ==
    [c \in Tables |->
        CASE c = "Model" -> <<ModelRow(1, 1, <<"test", "1">>), ModelRow(3, 3, <<"test", "3">>)>>
          [] c = "RelatedToModel" -> <<RelatedRow(1, 1)>>
          [] OTHER -> <<>>]
Databases ==
    { existing_models,
      existing_composite_models,
      [c \in Tables |-> <<>>],
      [c \in Tables |->
        CASE c = "Model" -> <<ModelRow(1, 3, <<"test", "1">>), ModelRow(2, 1, <<"test", "2">>),
                              ModelRow(3, 2, <<"other">>)>>
          [] c = "RelatedToModel" -> <<RelatedRow(1, 3), RelatedRow(2, 1), RelatedRow(3, 1)>>
          [] OTHER -> <<>>] }

\* Identities: keys of Model and of CompositePkModel as scalars, tuples and
\* lists, stored and not stored, with too few and too many components, and a
\* str and a bytes value of two characters.
Identities ==
    { PyInt(1), PyInt(2), PyTuple(<<PyInt(1)>>), PyList(<<PyInt(2)>>),
      PyTuple(<<PyInt(1), PyInt(1)>>), PyList(<<PyInt(1), PyInt(1)>>),
      PyTuple(<<PyInt(1), PyInt(3)>>), PyTuple(<<PyInt(2), PyInt(1)>>),
      PyTuple(<<>>), PyStr(<<"a", "b">>), [Val("bytes") EXCEPT !.s = <<"a", "b">>] }

\* Data for put and patch: the data of the tests for either entity, data that
\* names a key column, and a value of the wrong type.
Datas ==
    { << <<S("attr2"), PyInt(2)>>, <<S("attr3"), PyStr(<<"test", "2">>)>> >>,
      << <<S("attr3"), PyStr(<<"test", "2">>)>> >>,
      << <<S("attr"), PyInt(3)>>, <<S("attr2"), PyInt(2)>>, <<S("attr3"), PyStr(<<"test", "2">>)>> >>,
      << <<S("attr3"), PyInt(5)>> >> }

\* Bags for storage.get: none, a filter, and a filter that triggers the join.
GetBags ==
    { <<>>,
      << <<S("attr3_like"), PyStr(<<"%", "notfound", "%">>)>> >>,
      << <<S("related_attr"), PyInt(1)>> >> }

\* Bags for index and get: the filters and the order of the tests, an order
\* name that is not configured, and page descriptors; every bag of at most
\* MaxBagLen of these entries with distinct keys, in the order of the list.
IndexBags ==
    LET IndexPairs ==
        << <<S("attr3_like"), PyStr(<<"%", "test", "%">>)>>,
           <<S("attr3_like"), PyStr(<<"%", "notfound", "%">>)>>,
           <<S("related_attr"), PyInt(1)>>,
           <<S("order_by"), PyStr(<<"-", "attr2">>)>>,
           <<S("order_by"), PyStr(<<"bad">>)>>,
           <<S("page_params"), PageParams(5, 0)>>,
           <<S("page_params"), PageParams(5, 1)>>,
           <<S("page_params"), PageParams(1, 0)>> >>
    IN  {[i \in 1..Cardinality(c) |->
            IndexPairs[CHOOSE j \in c : Cardinality({k \in c : k < j}) = i - 1]] :
         c \in {c \in SUBSET DOMAIN IndexPairs :
                   /\ Cardinality(c) <= MaxBagLen
                   /\ \A j, k \in c : j # k => IndexPairs[j][1] # IndexPairs[k][1]}}

-----------------------------------------------------------------------------
(* The state machine of the mapping layer: a mapping is constructed, then  *)
(* visit_statement is called on it any number of times.                    *)

NoCall ==
    [called |-> FALSE, statement |-> NoStatement, params |-> <<>>,
     raised |-> "", message |-> <<>>, result |-> NoStatement, calls |-> <<>>]

CallOf(statement, params, outcome) ==
    [called |-> TRUE, statement |-> statement, params |-> params,
     raised |-> outcome.raised, message |-> outcome.message,
     result |-> outcome.result, calls |-> outcome.calls]

\* A request's visit_statement call on a shared mapping: where it is (idle,
\* running, done), its arguments, and its locals: the items its loop has
\* still to take (todo), what its generator has yielded, the statement its
\* loop has reached (stmt), and its outcome.
NoRequest ==
    [pc |-> "idle", statement |-> NoStatement, params |-> <<>>, todo |-> <<>>,
     yielded |-> <<>>, stmt |-> NoStatement, raised |-> "", message |-> <<>>,
     result |-> NoStatement]

\* A constructor call: the class and the arguments as the caller gave them.
InitCall(cls, args) == [cls |-> cls, args |-> args]

\* A facade operation: its name, its arguments (identity, data, keyword
\* arguments), the database it was called on and its outcome.
NoOperation ==
    [name |-> "", identity |-> PyNone, key |-> PyNone, data |-> <<>>, kwargs |-> <<>>,
     before |-> <<>>, raised |-> "", value |-> <<>>, count |-> 0, found |-> FALSE,
     visits |-> <<>>, executed |-> NoStatement]
OperationOf(name, identity, data, kwargs, before, outcome) ==
    [name |-> name, identity |-> identity,
     key |-> IF name \in {"get", "index", "count"} THEN PyNone ELSE ConvertIdentity(identity),
     data |-> data, kwargs |-> kwargs,
     before |-> before, raised |-> outcome.raised, value |-> outcome.value,
     count |-> outcome.count, found |-> outcome.found,
     visits |-> outcome.visits, executed |-> outcome.executed]

Init ==
    /\ init = InitCall("", <<>>)
    /\ visitor = NoVisitor
    /\ call = NoCall
    /\ session = existing_models
    /\ transaction = [committed |-> existing_models, active |-> TRUE, flushes |-> 0]
    /\ storage = NoStorage
    /\ operation = NoOperation
    /\ requests = [req \in 1..MaxRequests |-> NoRequest]

\* The request ends: its parameter bag and its query are discarded.
EndRequest ==
    /\ call.called
    /\ call' = NoCall
    /\ UNCHANGED <<init, visitor, storeVars, requests>>

NewFilterMap ==
    /\ ~call.called
    /\ \E filters \in FilterConfigs, import_from \in ImportFroms :
        /\ init' = InitCall("FilterMap", <<filters, import_from>>)
        /\ visitor' = FilterMapInit(filters, import_from)
    /\ UNCHANGED <<call, storeVars, requests>>

NewOrderByMap ==
    /\ ~call.called
    /\ \E order_by_attributes \in OrderByConfigs, import_from \in ImportFroms :
        /\ init' = InitCall("OrderByMap", <<order_by_attributes, import_from>>)
        /\ visitor' = OrderByMapInit(order_by_attributes, import_from)
    /\ UNCHANGED <<call, storeVars, requests>>

\* visit_statement as it would be if it took each filter it applied out of
\* self.filters.
FilterMapVisitStatementConsuming ==
    /\ visitor.kind = "FilterMap"
    /\ visitor.raised = ""
    /\ ~call.called
    /\ \E statement \in Statements, params \in FilterBags :
        /\ call' = CallOf(statement, params, FilterMapVisit(visitor, statement, params))
        /\ visitor' = [visitor EXCEPT !.filters =
                           SelectSeq(@, LAMBDA f : ~DictHas(params, f[1]))]
    /\ UNCHANGED <<init, storeVars, requests>>

\* FilterMap.visit_statement(statement, params) is called on the mapping.
FilterMapVisitStatement ==
    /\ visitor.kind = "FilterMap"
    /\ visitor.raised = ""
    /\ ~call.called
    /\ \E statement \in Statements, params \in FilterBags :
        call' = CallOf(statement, params, FilterMapVisit(visitor, statement, params))
    /\ UNCHANGED <<init, visitor, storeVars, requests>>

NewNullFilterMap ==
    /\ ~call.called
    /\ \E filters \in NullFilterConfigs, import_from \in ImportFroms,
          null_identifiers \in NullIdentifierPairs :
        /\ init' = InitCall("NullFilterMap", <<filters, import_from, null_identifiers>>)
        /\ visitor' = NullFilterMapInit(filters, import_from, null_identifiers)
    /\ UNCHANGED <<call, storeVars, requests>>

NewJoinMap ==
    /\ ~call.called
    /\ \E args \in JoinMapDictArgs \cup JoinMapOrderedArgs :
        /\ init' = InitCall("JoinMap", args)
        /\ visitor' = JoinMapInit(args)
    /\ UNCHANGED <<call, storeVars, requests>>

NewPaginationMap ==
    /\ ~call.called
    /\ \E c \in PaginationConfigs :
        /\ init' = InitCall("PaginationMap", c)
        /\ visitor' = PaginationMapInit(c[1], c[2], c[3], c[4])
    /\ UNCHANGED <<call, storeVars, requests>>

OrderByMapVisitStatement ==
    /\ visitor.kind = "OrderByMap"
    /\ visitor.raised = ""
    /\ ~call.called
    /\ \E statement \in Statements, params \in OrderByBags :
        call' = CallOf(statement, params, OrderByMapVisit(visitor, statement, params))
    /\ UNCHANGED <<init, visitor, storeVars, requests>>

NullFilterMapVisitStatement ==
    /\ visitor.kind = "NullFilterMap"
    /\ visitor.raised = ""
    /\ ~call.called
    /\ \E statement \in Statements, params \in FilterBags :
        call' = CallOf(statement, params, NullFilterMapVisit(visitor, statement, params))
    /\ UNCHANGED <<init, visitor, storeVars, requests>>

JoinMapVisitStatement ==
    /\ visitor.kind = "JoinMap"
    /\ visitor.raised = ""
    /\ ~call.called
    /\ \E statement \in Statements, params \in JoinBags :
        call' = CallOf(statement, params, JoinMapVisit(visitor, statement, params))
    /\ UNCHANGED <<init, visitor, storeVars, requests>>

PaginationMapVisitStatement ==
    /\ visitor.kind = "PaginationMap"
    /\ visitor.raised = ""
    /\ ~call.called
    /\ \E statement \in Statements, params \in PaginationBags :
        call' = CallOf(statement, params, PaginationMapVisit(visitor, statement, params))
    /\ UNCHANGED <<init, visitor, storeVars, requests>>

Next ==
    \/ NewFilterMap
    \/ NewOrderByMap
    \/ NewNullFilterMap
    \/ NewJoinMap
    \/ NewPaginationMap
    \/ FilterMapVisitStatement
    \/ OrderByMapVisitStatement
    \/ NullFilterMapVisitStatement
    \/ JoinMapVisitStatement
    \/ PaginationMapVisitStatement
    \/ EndRequest

Spec == Init /\ [][Next]_vars

-----------------------------------------------------------------------------
(* The state machine of the facade: a DatabaseStorage or a DatabaseIndex   *)
(* is constructed over a database, then its operations are called.         *)

InitStorage ==
    /\ init = InitCall("", <<>>)
    /\ visitor = NoVisitor
    /\ call = NoCall
    /\ session \in Databases
    /\ transaction = [committed |-> session, active |-> TRUE, flushes |-> 0]
    /\ storage = NoStorage
    /\ operation = NoOperation
    /\ requests = [req \in 1..MaxRequests |-> NoRequest]

\* An operation is called on a session whose transaction is usable; its
\* outcome leaves the database and the transaction as the outcome says.
Called(name, identity, data, kwargs, outcome) ==
    /\ operation' = OperationOf(name, identity, data, kwargs, session, outcome)
    /\ session' = outcome.db
    /\ transaction' = [transaction EXCEPT
                           !.active = outcome.active,
                           !.flushes = IF outcome.db # session THEN @ + 1 ELSE @]
    /\ UNCHANGED <<mapVars, storage>>

Idle(cls) == storage.cls = cls /\ operation.name = "" /\ transaction.active

NewDatabaseIndex ==
    /\ storage.cls = ""
    /\ \E entity \in {"Model", "columns"}, statement_visitors \in VisitorLists :
        storage' = DatabaseIndexInit(entity, statement_visitors)
    /\ UNCHANGED <<mapVars, session, transaction, operation>>

NewDatabaseStorage ==
    /\ storage.cls = ""
    /\ \/ \E statement_visitors \in VisitorLists :
            storage' = DatabaseStorageInit("Model", PyStr(S("attr")), statement_visitors)
       \/ storage' = DatabaseStorageInit("CompositePkModel",
                                         PyTuple(<<PyStr(S("attr")), PyStr(S("attr2"))>>),
                                         composite_visitors)
    /\ UNCHANGED <<mapVars, session, transaction, operation>>

\* index.get(**kwargs)
Get ==
    /\ Idle("DatabaseIndex")
    /\ \E kwargs \in IndexBags :
        Called("get", PyNone, <<>>, kwargs, DatabaseIndexGet(storage, session, kwargs))

\* storage.index(**kwargs) = DatabaseIndex.get(self, **kwargs)
Index ==
    /\ Idle("DatabaseStorage")
    /\ \E kwargs \in IndexBags :
        Called("index", PyNone, <<>>, kwargs, DatabaseIndexGet(storage, session, kwargs))

\* index.count(**kwargs)
Count ==
    /\ Idle("DatabaseIndex")
    /\ \E kwargs \in IndexBags :
        Called("count", PyNone, <<>>, kwargs, DatabaseIndexCount(storage, session, kwargs))

\* storage.count(**kwargs), inherited from DatabaseIndex
StorageCount ==
    /\ Idle("DatabaseStorage")
    /\ \E kwargs \in IndexBags :
        Called("count", PyNone, <<>>, kwargs, DatabaseIndexCount(storage, session, kwargs))

\* storage.get(identity, **kwargs)
GetIdentity ==
    /\ Idle("DatabaseStorage")
    /\ \E identity \in Identities, kwargs \in GetBags :
        Called("storage.get", identity, <<>>, kwargs,
               StorageGet(storage, session, identity, kwargs))

\* identity in storage
Contains_ ==
    /\ Idle("DatabaseStorage")
    /\ \E identity \in Identities :
        Called("contains", identity, <<>>, <<>>,
               [OpOutcome(session) EXCEPT
                    !.found = StorageContains(storage, session, identity)])

\* storage.put(identity, data)
Put ==
    /\ Idle("DatabaseStorage")
    /\ transaction.flushes < MaxFlushes
    /\ \E identity \in Identities, data \in Datas :
        Called("put", identity, data, <<>>,
               StoragePut(storage, session, identity, data))

\* storage.patch(identity, data)
Patch ==
    /\ Idle("DatabaseStorage")
    /\ transaction.flushes < MaxFlushes
    /\ \E identity \in Identities, data \in Datas :
        Called("patch", identity, data, <<>>,
               StoragePatch(storage, session, transaction.committed, identity, data))

\* storage.delete(identity)
Delete ==
    /\ Idle("DatabaseStorage")
    /\ transaction.flushes < MaxFlushes
    /\ \E identity \in Identities :
        Called("delete", identity, <<>>, <<>>,
               StorageDelete(storage, session, identity))

\* session.rollback() by the caller after a failed flush: the transaction is
\* usable again, on the database as last committed.
Rollback ==
    /\ operation.name = ""
    /\ ~transaction.active
    /\ transaction' = [transaction EXCEPT !.active = TRUE, !.flushes = 0]
    /\ session' = transaction.committed
    /\ UNCHANGED <<mapVars, storage, operation>>

\* The caller has the outcome of the operation.
EndOperation ==
    /\ operation.name # ""
    /\ operation' = NoOperation
    /\ UNCHANGED <<mapVars, session, transaction, storage>>

NextStorage ==
    \/ NewDatabaseIndex
    \/ NewDatabaseStorage
    \/ Get
    \/ Index
    \/ Count
    \/ StorageCount
    \/ GetIdentity
    \/ Contains_
    \/ Put
    \/ Patch
    \/ Delete
    \/ Rollback
    \/ EndOperation

SpecStorage == InitStorage /\ [][NextStorage]_vars

-----------------------------------------------------------------------------
(* The state machine of a shared mapping: one mapping object, constructed   *)
(* once, on which concurrent requests call visit_statement.  A request may  *)
(* be suspended between any two iterations of the loop of its call.         *)

\* A mapping of each class, as the tests construct them.
InitShared ==
    LET import_from == PyStr(S("tests.models"))
        order_by_attributes == << <<S("a"), Dotted("Model", "attr")>>,
                                  <<S("b"), Dotted("Model", "attr2")>> >>
        filters == << <<S("filter_name"), Dotted("Model", "attr")>>,
                      <<S("filter_name2"), Dotted("Model", "attr2")>> >>
        joins == PyDict(<< <<Names(<<"join_param", "other_param">>),
                             PyTuple(<<Dotted("Model", "related")>>)>>,
                           <<Names(<<"join_param2", "join_param">>),
                             PyTuple(<<PyStr(S("OtherRelatedToModel")),
                                       Dotted("Model", "other_related")>>)>> >>)
        page == <<S("page_params"), S("page_size"), S("first_item"), "">>
        mappings ==
            { <<InitCall("OrderByMap", <<order_by_attributes, import_from>>),
                OrderByMapInit(order_by_attributes, import_from)>>,
              <<InitCall("FilterMap", <<filters, import_from>>),
                FilterMapInit(filters, import_from)>>,
              <<InitCall("NullFilterMap", <<filters, import_from, DefaultNullIdentifiers>>),
                NullFilterMapInit(filters, import_from, DefaultNullIdentifiers)>>,
              <<InitCall("JoinMap", <<joins, import_from>>),
                JoinMapInit(<<joins, import_from>>)>>,
              <<InitCall("PaginationMap", page),
                PaginationMapInit(page[1], page[2], page[3], page[4])>> }
    IN  /\ \E m \in mappings : init = m[1] /\ visitor = m[2]
        /\ call = NoCall
        /\ session = existing_models
        /\ transaction = [committed |-> existing_models, active |-> TRUE, flushes |-> 0]
        /\ storage = NoStorage
        /\ operation = NoOperation
        /\ requests = [req \in 1..MaxRequests |-> NoRequest]

\* A request calls visit_statement(statement, params) on the mapping: the
\* call has its arguments and has set up its loop (the tokens of
\* order_by.split(","), params.items(), or self.joins.items()).
BeginVisit(req) ==
    LET bags ==
            { << <<S("order_by"), PyStr(<<"-", "b", ",", "a">>)>>,
                 <<S("filter_name"), PyStr(S("null"))>> >>,
              << <<S("order_by"), PyStr(<<"a", ",", "c">>)>> >>,
              << <<S("filter_name"), PyStr(S("not-null"))>>,
                 <<S("filter_name2"), PyStr(S("unknown_value"))>> >>,
              << <<S("join_param"), PyStr(S("x"))>>,
                 <<S("page_params"), PageParams(5, 1)>> >>,
              << <<S("join_param2"), PyStr(S("x"))>>,
                 <<S("page_params"), PageParams(1, 0)>> >> }
        Items(params) ==
            CASE visitor.kind = "OrderByMap" ->
                    IF DictHas(params, S("order_by"))
                    THEN Split(DictGet(params, S("order_by")).s, ",") ELSE <<>>
              [] visitor.kind \in {"FilterMap", "NullFilterMap"} -> params
              [] visitor.kind = "JoinMap" -> visitor.joins
              [] OTHER -> <<>>
    IN  /\ requests[req].pc = "idle"
        /\ \E statement \in Statements, params \in bags :
            requests' = [requests EXCEPT ![req] =
                            [NoRequest EXCEPT !.pc = "running", !.statement = statement,
                                              !.params = params, !.stmt = statement,
                                              !.todo = Items(params)]]
        /\ UNCHANGED <<init, visitor, call, storeVars>>

\* One iteration as it would be if the generator kept what it has yielded on
\* the mapping object: every call in progress sees the same list.
StepVisitSharingGenerator(req) ==
    LET me == requests[req]
        g == CASE visitor.kind = "FilterMap" ->
                    [raised |-> "", message |-> <<>>,
                     yielded |-> me.yielded
                                 \o FilterMapGenerateWhereclauses(visitor, <<Head(me.todo)>>)]
               [] visitor.kind = "NullFilterMap" ->
                    NullFilterMapGenerateWhereClauses(visitor, <<Head(me.todo)>>, me.yielded)
               [] visitor.kind = "OrderByMap" ->
                    OrderByMapGenerate(visitor, <<Head(me.todo)>>, me.yielded)
               [] OTHER -> [raised |-> "", message |-> <<>>, yielded |-> me.yielded]
        joined == IF visitor.kind = "JoinMap"
                  THEN JoinMapVisitLoop([visitor EXCEPT !.joins = <<Head(me.todo)>>],
                                        me.params, 1, me.stmt, <<>>).result
                  ELSE me.stmt
    IN  /\ me.pc = "running"
        /\ Len(me.todo) > 0
        /\ requests' = [q \in DOMAIN requests |->
                IF q = req
                THEN IF g.raised # ""
                     THEN [me EXCEPT !.pc = "done", !.raised = g.raised,
                                     !.message = g.message, !.todo = <<>>]
                     ELSE [me EXCEPT !.todo = Tail(@), !.yielded = g.yielded,
                                     !.stmt = joined]
                ELSE IF requests[q].pc = "running"
                     THEN [requests[q] EXCEPT !.yielded = g.yielded]
                     ELSE requests[q]]
        /\ UNCHANGED <<init, visitor, call, storeVars>>

\* One iteration of the loop of the request's call: the generator of a
\* FilterMap, NullFilterMap or OrderByMap takes the next item and yields a
\* clause, skips the item, or raises; the loop of a JoinMap takes the next
\* join and, if it is triggered, joins the statement it has reached.
StepVisit(req) ==
    LET me == requests[req]
        g == CASE visitor.kind = "FilterMap" ->
                    [raised |-> "", message |-> <<>>,
                     yielded |-> me.yielded
                                 \o FilterMapGenerateWhereclauses(visitor, <<Head(me.todo)>>)]
               [] visitor.kind = "NullFilterMap" ->
                    NullFilterMapGenerateWhereClauses(visitor, <<Head(me.todo)>>, me.yielded)
               [] visitor.kind = "OrderByMap" ->
                    OrderByMapGenerate(visitor, <<Head(me.todo)>>, me.yielded)
               [] OTHER -> [raised |-> "", message |-> <<>>, yielded |-> me.yielded]
        joined == IF visitor.kind = "JoinMap"
                  THEN JoinMapVisitLoop([visitor EXCEPT !.joins = <<Head(me.todo)>>],
                                        me.params, 1, me.stmt, <<>>).result
                  ELSE me.stmt
    IN  /\ me.pc = "running"
        /\ Len(me.todo) > 0
        /\ requests' = [requests EXCEPT ![req] =
                IF g.raised # ""
                THEN [me EXCEPT !.pc = "done", !.raised = g.raised,
                                !.message = g.message, !.todo = <<>>]
                ELSE [me EXCEPT !.todo = Tail(@), !.yielded = g.yielded,
                                !.stmt = joined]]
        /\ UNCHANGED <<init, visitor, call, storeVars>>

\* The loop of the request's call is exhausted: the clauses it yielded are
\* applied to the statement it was given in one call (where, order_by), a
\* JoinMap returns the statement its loop reached, and a PaginationMap, which
\* has no loop, reads the page descriptor and applies limit and offset.
FinishVisit(req) ==
    LET me == requests[req]
        outcome ==
            CASE visitor.kind \in {"FilterMap", "NullFilterMap"} ->
                    Returned(Where(me.statement, me.yielded), <<>>)
              [] visitor.kind = "OrderByMap" ->
                    IF DictHas(me.params, S("order_by"))
                    THEN Returned(OrderBy(me.statement, me.yielded), <<>>)
                    ELSE Returned(me.statement, <<>>)
              [] visitor.kind = "JoinMap" -> Returned(me.stmt, <<>>)
              [] OTHER -> PaginationMapVisit(visitor, me.statement, me.params)
    IN  /\ me.pc = "running"
        /\ Len(me.todo) = 0
        /\ requests' = [requests EXCEPT ![req] =
                [me EXCEPT !.pc = "done", !.raised = outcome.raised,
                           !.message = outcome.message, !.result = outcome.result]]
        /\ UNCHANGED <<init, visitor, call, storeVars>>

\* The request has the outcome of its call; its locals are gone.
EndVisit(req) ==
    /\ requests[req].pc = "done"
    /\ requests' = [requests EXCEPT ![req] = NoRequest]
    /\ UNCHANGED <<init, visitor, call, storeVars>>

NextShared ==
    \E req \in 1..MaxRequests :
        \/ BeginVisit(req)
        \/ StepVisit(req)
        \/ FinishVisit(req)
        \/ EndVisit(req)

SpecShared == InitShared /\ [][NextShared]_vars

-----------------------------------------------------------------------------
(* Properties of the mapping layer.                                        *)

\* The where, order-by, join, limit and offset clauses of two statements agree.
SameClauses(a, b) ==
    /\ a.where = b.where
    /\ a.order_by = b.order_by
    /\ a.joins = b.joins
    /\ a.limit = b.limit
    /\ a.offset = b.offset

\* The names in the trigger tuples of a JoinMap.
TriggerNames(self) ==
    UNION {{self.joins[i][1].items[j].s : j \in DOMAIN self.joins[i][1].items} :
           i \in DOMAIN self.joins}

\* Every key a mapping recognises: its configured parameter names, order_by,
\* its page-descriptor key and its trigger names.
RecognisedKeys(self) ==
    DictKeys(self.filters) \cup DictKeys(self.order_by_attributes)
    \cup (IF self.kind = "OrderByMap" THEN {S("order_by")} ELSE {})
    \cup (IF self.kind = "PaginationMap" THEN {self.param_name} ELSE {})
    \cup TriggerNames(self)

\* A visit_statement call of a mapping of the given class has returned or raised.
Visited(kind) == visitor.kind = kind /\ call.called

\* C1: a bag with none of the keys the mapping recognises makes visit_statement
\* of every mapping class return, without an error, a query with the same where,
\* order-by, join, limit and offset clauses as the query it was given.
C1_UnrecognisedKeysLeaveClauses ==
    (call.called /\ DictKeys(call.params) \cap RecognisedKeys(visitor) = {})
        => /\ call.raised = ""
           /\ call.result.columns = call.statement.columns
           /\ SameClauses(call.result, call.statement)

\* C1 happens: NullFilterMap passes a loaded query through for a bag of two
\* keys it does not know, calling where with no argument (tests/test_filter.py).
C1_Witness ==
    /\ Visited("NullFilterMap")
    /\ DictKeys(call.params) = {S("filter_name3"), S("order_by")}
    /\ call.statement = LoadedSelect
    /\ call.result = LoadedSelect
    /\ call.calls = <<MethodCall("where", <<>>)>>

\* The object a dotted path names: the path without its dots.
ObjectAt(dotted) == PyObj(SelectSeq(dotted, LAMBDA x : x # "."))

\* The entries of a bag whose key is configured in a dict, in the bag's order.
Configured(params, config) == SelectSeq(params, LAMBDA p : DictHas(config, p[1]))

\* The predicate a FilterMap configuration asks for a key and a value: the
\* configured operator, or equality when only a path is configured, applied
\* to the attribute that construction resolved for the key.
FilterPredicate(filters, key, value) ==
    LET exprs == DictGet(filters, key)
        resolved == DictGet(visitor.filters, key).items[1]
    IN  IF exprs.t = "tuple"
        THEN BinaryExpression(exprs.items[2].op, resolved, value)
        ELSE BinaryExpression("eq", resolved, value)

\* C2: FilterMap.visit_statement makes a single where call whose arguments are
\* one predicate per bag key that is configured, and none for any other key:
\* the configured operator (equality by default) applied to the resolved
\* attribute and the bag's value; the predicates are ANDed to the query.
C2_FilterPredicates ==
    Visited("FilterMap") =>
        LET filters == init.args[1]
            given == Configured(call.params, filters)
            expected == [i \in DOMAIN given |-> FilterPredicate(filters, given[i][1], given[i][2])]
        IN  /\ call.raised = ""
            /\ call.calls = <<MethodCall("where", expected)>>
            /\ Len(expected) = Cardinality(DictKeys(call.params) \cap DictKeys(filters))
            /\ call.result = [call.statement EXCEPT !.where = @ \o expected]

\* C2 happens: filter_name (a path only) and filter_name2 (a path with
\* operator.ge) are both in the bag, and a loaded query gets both predicates.
C2_Witness ==
    /\ Visited("FilterMap")
    /\ call.statement = LoadedSelect
    /\ call.params = << <<S("filter_name2"), PyStr(S("unknown_value"))>>,
                        <<S("filter_name"), PyStr(S("null"))>> >>
    /\ call.calls = <<MethodCall("where",
            <<BinaryExpression("ge", PyObj(<<"Model", "attr2">>), PyStr(S("unknown_value"))),
              BinaryExpression("eq", PyObj(<<"Model", "attr">>), PyStr(S("null")))>>)>>
    /\ Len(call.result.where) = 3

\* The tokens joined again with the separator between them.
RECURSIVE JoinedWith(_, _)
JoinedWith(tokens, sep) ==
    IF Len(tokens) = 0 THEN <<>>
    ELSE IF Len(tokens) = 1 THEN tokens[1]
    ELSE tokens[1] \o <<sep>> \o JoinedWith(Tail(tokens), sep)

\* tokens are the comma-separated tokens of the str s: none holds a comma, and
\* with commas between them they spell s.
IsTokensOf(tokens, s) ==
    /\ Len(tokens) >= 1
    /\ \A i \in DOMAIN tokens : "," \notin Range(tokens[i])
    /\ JoinedWith(tokens, ",") = s

\* A token is descending when it has the prefix "-"; its name is the rest.
Descending(token) == Len(token) >= 1 /\ token[1] = "-"
NameOf(token) == IF Descending(token) THEN SubSeq(token, 2, Len(token)) ELSE token

\* What an OrderByMap configuration gives for a public name: the object a
\* dotted path names, or the label itself.
OrderByTarget(order_by_attributes, name) ==
    LET column == DictGet(order_by_attributes, name)
    IN  IF "." \in Range(column.s) THEN ObjectAt(column.s) ELSE column

\* The order_by value of the call in progress, and its tokens.
OrderByValue == DictGet(call.params, S("order_by")).s
OrderByTokens == Split(OrderByValue, ",")
HasOrderBy == Visited("OrderByMap") /\ DictHas(call.params, S("order_by"))

\* C3: when every token of order_by names (after one leading "-") a configured
\* name, OrderByMap.visit_statement makes one order_by call with one sort
\* expression per token, in the tokens' order: desc(target) for a token with
\* the prefix "-", the plain target otherwise.
C3_OrderByExpressions ==
    (HasOrderBy /\ \A i \in DOMAIN OrderByTokens :
                      DictHas(init.args[1], NameOf(OrderByTokens[i])))
        => LET expected == [i \in DOMAIN OrderByTokens |->
                   LET target == OrderByTarget(init.args[1], NameOf(OrderByTokens[i]))
                   IN  IF Descending(OrderByTokens[i])
                       THEN UnaryExpression("desc_op", target) ELSE target]
           IN  /\ IsTokensOf(OrderByTokens, OrderByValue)
               /\ call.raised = ""
               /\ call.calls = <<MethodCall("order_by", expected)>>
               /\ Len(call.calls[1].args) = Len(OrderByTokens)
               /\ call.result = [call.statement EXCEPT !.order_by = @ \o expected]

\* C3 happens: order_by="-a,b" against {a: Model.attr, b: Model.attr2} yields
\* desc(Model.attr), then Model.attr2.
C3_Witness ==
    /\ HasOrderBy
    /\ OrderByValue = <<"-", "a", ",", "b">>
    /\ call.calls = <<MethodCall("order_by",
            <<UnaryExpression("desc_op", PyObj(<<"Model", "attr">>)),
              PyObj(<<"Model", "attr2">>)>>)>>

\* The first token whose name is not configured.
FirstUnknown(tokens, order_by_attributes) ==
    LET unknown == {i \in DOMAIN tokens : ~DictHas(order_by_attributes, NameOf(tokens[i]))}
    IN  tokens[CHOOSE i \in unknown : \A j \in unknown : i <= j]

\* C4: when some token of order_by names no configured name, OrderByMap.
\* visit_statement raises OrderByException whose message names the first such
\* token without its "-", and order_by is never called on the query: no sort
\* expression is applied, also none of the valid tokens before the unknown one.
C4_UnknownOrderByRejected ==
    (HasOrderBy /\ \E i \in DOMAIN OrderByTokens :
                      ~DictHas(init.args[1], NameOf(OrderByTokens[i])))
        => /\ IsTokensOf(OrderByTokens, OrderByValue)
           /\ call.raised = "OrderByException"
           /\ call.message = <<"Unknown order_by attribute: ">>
                             \o NameOf(FirstUnknown(OrderByTokens, init.args[1]))
           /\ call.calls = <<>>
           /\ call.result = NoStatement

\* C4 happens: order_by="-a,b" against a configuration that knows a only raises
\* for b, after the generator has produced desc(a).
C4_Witness ==
    /\ HasOrderBy
    /\ OrderByValue = <<"-", "a", ",", "b">>
    /\ DictKeys(visitor.order_by_attributes) = {S("a")}
    /\ call.raised = "OrderByException"
    /\ call.message = <<"Unknown order_by attribute: ", "b">>
    /\ call.calls = <<>>

\* The null and not-null sentinels given to the constructor.
NullSentinel == init.args[3][1]
NotNullSentinel == init.args[3][2]

\* The entries of the bag under a configured NullFilterMap key whose value is
\* neither sentinel, in the bag's order.
InvalidNullFilters ==
    SelectSeq(Configured(call.params, init.args[1]),
              LAMBDA p : p[2] # NullSentinel /\ p[2] # NotNullSentinel)

\* C5: for each configured NullFilterMap key in the bag, visit_statement adds
\* one predicate on the attribute resolved for that key: IS NULL when the value
\* is the null sentinel, IS NOT NULL when it is the not-null sentinel, the
\* sentinels being those given at construction ("null" and "not-null" by default).
C5_NullFilterPredicates ==
    (Visited("NullFilterMap") /\ Len(InvalidNullFilters) = 0) =>
        LET given == Configured(call.params, init.args[1])
            expected == [i \in DOMAIN given |->
                BinaryExpression(IF given[i][2] = NullSentinel THEN "is_" ELSE "is_not",
                                 DictGet(visitor.filters, given[i][1]), PyNone)]
        IN  /\ call.raised = ""
            /\ call.calls = <<MethodCall("where", expected)>>
            /\ Len(expected) = Cardinality(DictKeys(call.params) \cap DictKeys(init.args[1]))
            /\ call.result = [call.statement EXCEPT !.where = @ \o expected]

\* C5 happens: with the sentinels ("unknown_value", "null") given at
\* construction, filter_name="unknown_value" is IS NULL and filter_name2="null"
\* is IS NOT NULL.
C5_Witness ==
    /\ Visited("NullFilterMap")
    /\ init.args[3] # DefaultNullIdentifiers
    /\ call.params = << <<S("filter_name"), PyStr(S("unknown_value"))>>,
                        <<S("filter_name2"), PyStr(S("null"))>> >>
    /\ call.calls = <<MethodCall("where",
            <<BinaryExpression("is_", PyObj(<<"Model", "attr">>), PyNone),
              BinaryExpression("is_not", PyObj(<<"Model", "attr2">>), PyNone)>>)>>

\* C6: NullFilterMap.visit_statement raises NullFilterException exactly when a
\* configured key is in the bag with a value that is neither sentinel; the
\* message names the value and the key; where is then never called, also not for
\* keys with valid values; a value under an unconfigured key never raises.
C6_InvalidNullFilterRejected ==
    Visited("NullFilterMap") =>
        /\ call.raised \in {"", "NullFilterException"}
        /\ call.raised = "NullFilterException" <=> Len(InvalidNullFilters) > 0
        /\ call.raised = "NullFilterException" =>
            /\ call.message = <<"Unknown filter value: '">> \o InvalidNullFilters[1][2].s
                              \o <<"' for ", Backtick>> \o InvalidNullFilters[1][1] \o <<Backtick>>
            /\ call.calls = <<>>
            /\ call.result = NoStatement

\* C6 happens: filter_name2="null" is valid and comes first, filter_name=
\* "unknown_value" is not: the call raises and where is not called.
C6_Witness ==
    /\ Visited("NullFilterMap")
    /\ init.args[3] = DefaultNullIdentifiers
    /\ call.params = << <<S("filter_name2"), PyStr(S("null"))>>,
                        <<S("filter_name"), PyStr(S("unknown_value"))>> >>
    /\ call.raised = "NullFilterException"
    /\ call.message = <<"Unknown filter value: '", "unknown_value", "' for ", Backtick,
                        "filter_name", Backtick>>
    /\ call.calls = <<>>

\* C6 happens on the other side: an unconfigured key with a value that is no
\* sentinel does not raise.
C6_WitnessUnconfigured ==
    /\ Visited("NullFilterMap")
    /\ call.params = << <<S("filter_name3"), PyStr(S("unknown_value"))>> >>
    /\ init.args[3] = DefaultNullIdentifiers
    /\ call.raised = ""

\* The configured joins whose trigger names meet the bag's keys, in
\* configuration order.
TriggeredJoins(self, params) ==
    SelectSeq(self.joins, LAMBDA j :
        {j[1].items[i].s : i \in DOMAIN j[1].items} \cap DictKeys(params) # {})

\* C7: JoinMap.visit_statement applies, in configuration order, each configured
\* join once when the bag's keys meet its trigger names and not at all
\* otherwise; each join is applied to the query the previous one returned.
C7_TriggeredJoinsApplied ==
    Visited("JoinMap") =>
        LET fired == TriggeredJoins(visitor, call.params)
        IN  /\ call.raised = ""
            /\ call.calls = [i \in DOMAIN fired |-> MethodCall("join", fired[i][2])]
            /\ call.result = [call.statement EXCEPT
                                 !.joins = @ \o [i \in DOMAIN fired |-> fired[i][2]]]

\* C7 happens: two joins are configured, the bag has two trigger names of the
\* first and one of the second, and both joins are applied once, in order.
C7_Witness ==
    /\ Visited("JoinMap")
    /\ Len(visitor.joins) = 2
    /\ DictKeys(call.params) = {S("join_param"), S("other_param")}
    /\ call.statement = LoadedSelect
    /\ call.calls = <<MethodCall("join", <<PyObj(<<"Model", "related">>)>>),
                      MethodCall("join", <<PyObj(<<"OtherRelatedToModel">>),
                                           Dotted("Model", "other_related")>>)>>
    /\ Len(call.result.joins) = 3

\* C7 happens on the other side: the first join is skipped, the second fires.
C7_WitnessSkipped ==
    /\ Visited("JoinMap")
    /\ Len(visitor.joins) = 2
    /\ DictKeys(call.params) = {S("join_param2"), S("filter_name")}
    /\ Len(call.calls) = 1
    /\ call.calls[1].args[1] = PyObj(<<"OtherRelatedToModel">>)

\* The joins JoinMap(import_from, trigger_names, join_1, ..., join_n) is to
\* apply: each join_i as a tuple (a str join is a 1-tuple), its str items
\* resolved and its other items as they are.
OrderedJoin(join) ==
    LET items == IF join.t = "str" THEN <<join>> ELSE join.items
    IN  [i \in DOMAIN items |->
            IF items[i].t = "str" THEN ObjectAt(items[i].s) ELSE items[i]]

OrderedJoins(args) == [i \in 1..(Len(args) - 2) |-> OrderedJoin(args[i + 2])]

\* C8: a JoinMap built as JoinMap(namespace, trigger_names, join_1, ..., join_n)
\* is accepted (joins given as a str, a 1-tuple or resolved classes and
\* expressions), and visit_statement makes the join calls join_1 ... join_n in
\* that order when the bag has a name of trigger_names, and none otherwise.
C8_OrderedFormJoins ==
    (init.cls = "JoinMap" /\ init.args \in JoinMapOrderedArgs) =>
        /\ visitor.raised = ""
        /\ call.called =>
            LET names == {init.args[2].items[i].s : i \in DOMAIN init.args[2].items}
                joins == OrderedJoins(init.args)
            IN  /\ call.raised = ""
                /\ call.calls = IF names \cap DictKeys(call.params) # {}
                                THEN [i \in DOMAIN joins |-> MethodCall("join", joins[i])]
                                ELSE <<>>

\* The value of a field of a page descriptor, as the configured getter reads
\* it: an attribute of an object for getattr (the default), an item of a dict
\* for operator.getitem.
HasField(getter_func, page_params, name) ==
    /\ page_params.t = (IF getter_func = "getitem" THEN "dict" ELSE "PageParams")
    /\ \E i \in DOMAIN page_params.attrs : page_params.attrs[i][1] = name
Field(page_params, name) ==
    page_params.attrs[CHOOSE i \in DOMAIN page_params.attrs : page_params.attrs[i][1] = name][2]

\* C9: when the page-descriptor key is in the bag, PaginationMap.visit_statement
\* calls limit with the descriptor's page-size field and then offset with its
\* first-item field on the limited query, both fields read through the
\* configured getter; when the key is absent it returns the query it was given
\* and calls neither.
C9_LimitThenOffset ==
    Visited("PaginationMap") =>
        LET param_name == init.args[1]
            getter_func == init.args[4]
            page_params == DictGet(call.params, param_name)
        IN  /\ ~DictHas(call.params, param_name) =>
                /\ call.raised = ""
                /\ call.result = call.statement
                /\ call.calls = <<>>
            /\ (/\ DictHas(call.params, param_name)
                /\ HasField(getter_func, page_params, init.args[2])
                /\ HasField(getter_func, page_params, init.args[3])) =>
                /\ call.raised = ""
                /\ call.calls = <<MethodCall("limit", <<Field(page_params, init.args[2])>>),
                                  MethodCall("offset", <<Field(page_params, init.args[3])>>)>>
                /\ call.result = [call.statement EXCEPT
                                     !.limit = Field(page_params, init.args[2]),
                                     !.offset = Field(page_params, init.args[3])]

\* C9 happens: PaginationMap("page_params", "page_size", "first_item") and
\* PageParams(5, 1) on a query that had limit 2 and offset 1: limit(5), then offset(1).
C9_Witness ==
    /\ Visited("PaginationMap")
    /\ init.args = <<S("page_params"), S("page_size"), S("first_item"), "">>
    /\ call.statement = LoadedSelect
    /\ DictHas(call.params, S("page_params"))
    /\ DictGet(call.params, S("page_params")) = PageParams(5, 1)
    /\ call.calls = <<MethodCall("limit", <<PyInt(5)>>), MethodCall("offset", <<PyInt(1)>>)>>
    /\ call.result.limit = PyInt(5)
    /\ call.result.offset = PyInt(1)

\* C9 happens through operator.getitem on a dict descriptor.
C9_WitnessGetter ==
    /\ Visited("PaginationMap")
    /\ init.args[4] = "getitem"
    /\ call.raised = ""
    /\ Len(call.calls) = 2

\* C9 happens on the other side: the key is absent from a bag that is not empty.
C9_WitnessAbsent ==
    /\ Visited("PaginationMap")
    /\ init.args[1] = S("page_params")
    /\ DictKeys(call.params) = {S("page"), S("filter_name")}
    /\ call.result = call.statement
    /\ call.calls = <<>>

-----------------------------------------------------------------------------
(* Properties of the facade.                                               *)

\* The bag without one key.
Without(params, key) == SelectSeq(params, LAMBDA e : e[1] # key)

\* The storage has the statement visitors of the tests: a FilterMap, an
\* OrderByMap and a JoinMap.
ConfiguredAsInTests ==
    /\ storage.cls \in {"DatabaseStorage", "DatabaseIndex"}
    /\ [i \in DOMAIN storage._statement_visitors |-> storage._statement_visitors[i].kind]
         = <<"FilterMap", "OrderByMap", "JoinMap">>

\* The list operation has returned for a bag with a page descriptor.
ListedWithPage ==
    /\ operation.name \in {"index", "get"}
    /\ operation.raised = ""
    /\ DictHas(operation.kwargs, S("page_params"))

\* The same list operation without the page descriptor.
Unpaginated == DatabaseIndexGet(storage, session, Without(operation.kwargs, S("page_params"))).value

\* C10: for a storage or index with the statement visitors of the tests (a
\* FilterMap, an OrderByMap and a JoinMap), a page descriptor (size s, first
\* item o) makes index/get return at most s items, starting at position o of
\* the unpaginated result: over the two stored entities, PageParams(5, 0)
\* returns both and PageParams(5, 1) only the second.
C10_PageOfUnpaginated ==
    (ConfiguredAsInTests /\ ListedWithPage) =>
        LET page_params == DictGet(operation.kwargs, S("page_params"))
        IN  operation.value = Paged(Unpaginated,
                                    DictGet(page_params.attrs, S("page_size")),
                                    DictGet(page_params.attrs, S("first_item")))

\* The same statement for a storage whose visitors end with a PaginationMap.
PageOfUnpaginatedWithPaginationMap ==
    (/\ Len(storage._statement_visitors) = 4
     /\ ListedWithPage) =>
        LET page_params == DictGet(operation.kwargs, S("page_params"))
        IN  operation.value = Paged(Unpaginated,
                                    DictGet(page_params.attrs, S("page_size")),
                                    DictGet(page_params.attrs, S("first_item")))

-----------------------------------------------------------------------------
(* Properties of the identity operations of DatabaseStorage.               *)

\* The table of the storage's entity.
StorageTable == EntityTable(storage.entity)

\* The stored entities of a database whose primary key equals a normalised
\* identity, component for component.
StoredWith(db, key) ==
    SelectSeq(db[StorageTable], LAMBDA r : KeyOf(StorageTable, r) = key.items)

\* An identity operation of the given names has just been called.
Did(names) == storage.cls = "DatabaseStorage" /\ operation.name \in names

\* C11: get(identity) without extra parameters returns the stored entity whose
\* primary key equals the identity when there is one and raises NotFoundError
\* when there is none, and it leaves the stored entities as they were.
C11_GetReturnsStored ==
    (Did({"storage.get"}) /\ operation.kwargs = <<>>) =>
        LET stored == StoredWith(operation.before, operation.key)
        IN  /\ session = operation.before
            /\ IF Len(stored) > 0
               THEN operation.raised = "" /\ operation.value = <<stored[1]>>
               ELSE operation.raised = "NotFoundError"

\* The same statement for identities that have as many components as the
\* primary key has columns.
GetReturnsStoredOfKeyLength ==
    (/\ Did({"storage.get"})
     /\ operation.kwargs = <<>>
     /\ Len(operation.key.items) = Len(storage._attr)) =>
        LET stored == StoredWith(operation.before, operation.key)
        IN  /\ session = operation.before
            /\ IF Len(stored) > 0
               THEN operation.raised = "" /\ operation.value = <<stored[1]>>
               ELSE operation.raised = "NotFoundError"

\* C12: put(identity, data) raises ConflictError whenever an entity with that
\* identity is stored, and then the stored entities are exactly as before.
C12_PutConflict ==
    (Did({"put"}) /\ Len(StoredWith(operation.before, operation.key)) > 0) =>
        /\ operation.raised = "ConflictError"
        /\ session = operation.before

\* put was called with the identity of a stored entity, in either storage:
\* of Model by its key as a scalar, of CompositePkModel by both key columns.
C12_Witness ==
    /\ Did({"put"})
    /\ Len(StoredWith(operation.before, operation.key)) > 0
    /\ operation.raised = "ConflictError"
    /\ operation.identity \in {PyInt(1), PyList(<<PyInt(1), PyInt(1)>>)}

\* C13: patch(identity, data) and delete(identity) raise NotFoundError whenever
\* no entity with that identity is stored, and then the stored entities are
\* exactly as before.
C13_PatchDeleteNotFound ==
    (Did({"patch", "delete"}) /\ Len(StoredWith(operation.before, operation.key)) = 0) =>
        /\ operation.raised = "NotFoundError"
        /\ session = operation.before

\* The same statement for identities that have as many components as the
\* primary key has columns.
PatchDeleteNotFoundOfKeyLength ==
    (/\ Did({"patch", "delete"})
     /\ Len(operation.key.items) = Len(storage._attr)
     /\ Len(StoredWith(operation.before, operation.key)) = 0) =>
        /\ operation.raised = "NotFoundError"
        /\ session = operation.before

\* The tuple an identity stands for: a scalar, a str and a bytes value stand
\* for the 1-tuple that holds them, a tuple or a list for the tuple of its
\* elements in order.
Normalised(identity) ==
    CASE identity.t \in {"int", "NoneType", "str", "bytes"} -> PyTuple(<<identity>>)
      [] identity.t \in {"tuple", "list"} -> PyTuple(identity.items)

\* The outcome the operation just called has when it is called with another
\* identity on the same database.
Performed(identity) ==
    CASE operation.name = "storage.get"
            -> StorageGet(storage, operation.before, identity, operation.kwargs)
      [] operation.name = "contains"
            -> [OpOutcome(operation.before) EXCEPT
                   !.found = StorageContains(storage, operation.before, identity)]
      [] operation.name = "put" -> StoragePut(storage, operation.before, identity, operation.data)
      [] operation.name = "patch"
            -> StoragePatch(storage, operation.before, transaction.committed,
                            identity, operation.data)
      [] operation.name = "delete" -> StorageDelete(storage, operation.before, identity)

\* An outcome has the result and the effect on the database of the operation
\* just called.
SameOutcome(outcome) ==
    /\ outcome.raised = operation.raised
    /\ outcome.value = operation.value
    /\ outcome.found = operation.found
    /\ outcome.db = session

IdentityOperations == {"storage.get", "contains", "put", "patch", "delete"}

\* C14: get, put, patch, delete and contains work on the normalised identity
\* (a scalar, a str or a bytes value as the 1-tuple holding it, any other
\* iterable as the tuple of its elements in order); normalising a normalised
\* identity changes nothing; and the operation has the same result and the
\* same effect on the database for every identity with the same normal form
\* (scalar, 1-tuple, list) and for the normalised tuple itself.
C14_IdentityNormalised ==
    Did(IdentityOperations) =>
        /\ operation.key = Normalised(operation.identity)
        /\ ConvertIdentity(operation.key) = operation.key
        /\ SameOutcome(Performed(Normalised(operation.identity)))
        /\ \A other \in Identities :
              Normalised(other) = Normalised(operation.identity) => SameOutcome(Performed(other))

\* put was called with the list [2] where no entity 2 was stored, and stored
\* one, as put(2) and put((2,)) would have.
C14_Witness ==
    /\ Did({"put"})
    /\ operation.identity = PyList(<<PyInt(2)>>)
    /\ operation.raised = ""
    /\ session # operation.before
    /\ SameOutcome(Performed(PyInt(2)))

\* An operation was called with a str, which stands for a 1-tuple.
C14_WitnessStr ==
    /\ Did(IdentityOperations)
    /\ operation.identity.t = "str"
    /\ Len(operation.key.items) = 1

-----------------------------------------------------------------------------
(* Properties of construction.                                             *)

\* The path or label of one configured value: the value itself, or the first
\* element of a tuple (FilterMap: path and operator; JoinMap: target and ON).
TargetOf(value) ==
    IF value.t = "tuple" /\ Len(value.items) > 0 THEN value.items[1] ELSE value

\* The paths and labels the caller configured, as strings of lexemes.
ConfiguredTargets ==
    LET config == IF init.cls = "JoinMap"
                  THEN IF Len(init.args) = 2 /\ init.args[1].t = "dict"
                       THEN init.args[1].attrs ELSE <<>>
                  ELSE init.args[1]
    IN  {TargetOf(config[i][2]).s : i \in {j \in DOMAIN config : TargetOf(config[j][2]).t = "str"}}

\* A path or label resolves in the namespace: its first segment is an
\* attribute of the module and every following segment an attribute of the
\* object before it.
ResolvesInNamespace(target) ==
    LET segments == Split(target, ".")
        named(i) == IF Len(segments[i]) = 1 THEN segments[i][1] ELSE ""
    IN  \A i \in DOMAIN segments : HasAttr([j \in 1..(i - 1) |-> named(j)], named(i))

PathMappings == {"FilterMap", "OrderByMap", "NullFilterMap", "JoinMap"}

ThroughNone(target) ==
    LET segments == Split(target, ".")
    IN  /\ Len(segments) > 3
        /\ SubSeq(segments, 1, 3) = <<S("PageParams"), S("__init__"), S("__doc__")>>

\* The same statement for dotted paths that do not lead through None: a
\* configured value of OrderByMap without a dot is a label, kept as it is.
UnresolvedDottedPathFailsAtConstruction ==
    (/\ init.cls \in PathMappings
     /\ \E target \in ConfiguredTargets :
            /\ init.cls = "OrderByMap" => Contains(target, ".")
            /\ ~ThroughNone(target)
            /\ ~ResolvesInNamespace(target)) => visitor.raised # ""

-----------------------------------------------------------------------------
(* Properties of the list, count and get operations.                       *)

VisitingOperations == {"get", "index", "count", "storage.get"}

\* The statement an operation builds before it turns to its visitors.
FirstStatement ==
    CASE operation.name \in {"get", "index"} -> Select(storage.entity)
      [] operation.name = "count" -> Select(CountColumn(storage))
      [] operation.name = "storage.get"
            -> Where(Select(storage.entity), IdentityClauses(storage, operation.key))

\* What the visitor at place i of the list returns for the arguments of the
\* i-th call of visit_statement.
ReturnedBy(i) ==
    VisitStatement(storage._statement_visitors[i], operation.visits[i].statement,
                   operation.visits[i].params)

\* C16: list, count and DatabaseStorage.get call visit_statement once on each
\* configured visitor, in the order of the list, the first with the statement
\* the operation built, each following one with the statement the visitor
\* before it returned, all with the operation's keyword arguments; the
\* statement executed is the one the last visitor returned.  A visitor that
\* raises ends the operation with its exception, nothing being executed.
C16_VisitorsInOrder ==
    operation.name \in VisitingOperations =>
        LET n == Len(storage._statement_visitors)
            k == Len(operation.visits)
            aborted == k > 0 /\ ReturnedBy(k).raised # ""
        IN  /\ k <= n
            /\ \A i \in 1..k : /\ operation.visits[i].visitor = i
                               /\ operation.visits[i].params = operation.kwargs
            /\ k > 0 => operation.visits[1].statement = FirstStatement
            /\ \A i \in 1..(k - 1) :
                  /\ ReturnedBy(i).raised = ""
                  /\ operation.visits[i + 1].statement = ReturnedBy(i).result
            /\ aborted => /\ operation.raised = ReturnedBy(k).raised
                          /\ operation.executed = NoStatement
                          /\ session = operation.before
            /\ ~aborted =>
                  /\ k = n
                  /\ operation.executed = IF n = 0 THEN FirstStatement ELSE ReturnedBy(n).result
                  /\ (operation.name \in {"get", "index"} /\ operation.raised = "") =>
                        operation.value = Unique(Execute(operation.before, operation.executed))

\* A list operation went through the three visitors of the tests with a bag
\* that the FilterMap, the OrderByMap and the JoinMap all act on, and executed
\* a statement with the clauses of all three.
C16_Witness ==
    /\ operation.name \in {"get", "index"}
    /\ Len(operation.visits) = 3
    /\ operation.raised = ""
    /\ Len(operation.executed.where) = 1
    /\ Len(operation.executed.joins) = 1
    /\ operation.visits[3].statement # operation.visits[2].statement
    /\ operation.visits[2].statement # operation.visits[1].statement

\* The second visitor of the list raised, and the third was not called.
C16_WitnessRaised ==
    /\ operation.name \in VisitingOperations
    /\ Len(storage._statement_visitors) >= 3
    /\ Len(operation.visits) = 2
    /\ operation.raised = "OrderByException"

-----------------------------------------------------------------------------
(* Properties of put, patch and delete.                                    *)

\* The key columns of the storage's entity, and its other columns.
KeyFields == {storage._attr[i] : i \in DOMAIN storage._attr}
OtherFields == {S("attr"), S("attr2"), S("attr3")} \ KeyFields

\* The data of the operation gives every column that is not a key column a
\* value of the column's type (and gives no unknown field), and the
\* components of the identity are integers, as the key columns are.
Loadable ==
    /\ SchemaValidate(storage.entity, operation.data, TRUE) = ""
    /\ OtherFields \subseteq DictKeys(operation.data)
    /\ \A i \in DOMAIN operation.key.items : operation.key.items[i].t = "int"

\* The entities stored after the operation that were not stored before it,
\* and those stored before it that are not stored after it.
Created == SelectSeq(session[StorageTable], LAMBDA r : r \notin Range(operation.before[StorageTable]))
Removed == SelectSeq(operation.before[StorageTable], LAMBDA r : r \notin Range(session[StorageTable]))

\* What put promises for an identity that is not stored.
PutCreated ==
    /\ operation.raised = ""
    /\ Len(Created) = 1
    /\ Len(Removed) = 0
    /\ \A c \in Tables \ {StorageTable} : session[c] = operation.before[c]
    /\ KeyOf(StorageTable, Created[1]) = operation.key.items
    /\ \A f \in OtherFields : Created[1][f[1]] = DictGet(operation.data, f)
    /\ operation.value = Created
    /\ StorageContains(storage, session, operation.identity)
    /\ StorageGet(storage, session, operation.identity, <<>>).value = Created

\* C17: put(identity, data) on an identity that is not stored, with data the
\* schema accepts, creates exactly one entity, whose key columns are the
\* components of the identity (whatever data gives for them) and whose other
\* columns come from data; afterwards contains(identity) is true and
\* get(identity) returns that entity, and every entity stored before is
\* unchanged.
C17_PutCreates ==
    (/\ Did({"put"})
     /\ Len(StoredWith(operation.before, operation.key)) = 0
     /\ Loadable) => PutCreated

\* The same statement for identities that have as many components as the
\* primary key has columns.
PutCreatesOfKeyLength ==
    (/\ Did({"put"})
     /\ Len(operation.key.items) = Len(storage._attr)
     /\ Len(StoredWith(operation.before, operation.key)) = 0
     /\ Loadable) => PutCreated

\* put stored an entity under an identity whose component data names too,
\* with another value.
PutOverridesData ==
    /\ Did({"put"})
    /\ Len(operation.key.items) = Len(storage._attr)
    /\ PutCreated
    /\ DictHas(operation.data, S("attr"))
    /\ DictGet(operation.data, S("attr")) # operation.key.items[1]

\* What patch promises for a stored identity: the entity has the values of
\* data in the fields data names and its old values in the others, it is what
\* patch returns, and the database is otherwise as before.
PatchUpdated ==
    LET old == StoredWith(operation.before, operation.key)[1]
        rows == operation.before[StorageTable]
    IN  /\ operation.raised = ""
        /\ Len(operation.value) = 1
        /\ \A f \in {S("attr"), S("attr2"), S("attr3")} :
              operation.value[1][f[1]] = IF DictHas(operation.data, f)
                                         THEN DictGet(operation.data, f) ELSE old[f[1]]
        /\ operation.value = StorageGet(storage, session, operation.identity, <<>>).value
        /\ session = [operation.before EXCEPT ![StorageTable] =
                         [i \in DOMAIN rows |-> IF rows[i] = old THEN operation.value[1]
                                                ELSE rows[i]]]

\* C18: patch(identity, data) on a stored identity, with data the schema
\* accepts, changes on that entity exactly the fields data names and returns
\* the entity fetched again by the same identity, with the new values; every
\* other entity is unchanged and none is created or removed.
C18_PatchUpdates ==
    (/\ Did({"patch"})
     /\ Len(StoredWith(operation.before, operation.key)) > 0
     /\ SchemaValidate(storage.entity, operation.data, TRUE) = "") => PatchUpdated

\* The same statement for data that gives no key column a new value.
PatchUpdatesKeepingKey ==
    (/\ Did({"patch"})
     /\ Len(StoredWith(operation.before, operation.key)) > 0
     /\ SchemaValidate(storage.entity, operation.data, TRUE) = ""
     /\ \A i \in DOMAIN storage._attr :
           DictHas(operation.data, storage._attr[i]) =>
               DictGet(operation.data, storage._attr[i]) = operation.key.items[i]) => PatchUpdated

\* patch changed a field of a stored entity.
PatchChanged ==
    /\ Did({"patch"})
    /\ Len(StoredWith(operation.before, operation.key)) > 0
    /\ PatchUpdated
    /\ session # operation.before

\* C19: delete(identity) on a stored identity removes that entity and returns
\* it; afterwards contains(identity) is false and get(identity) raises
\* NotFoundError; every other entity of the storage is still stored and
\* unchanged.  (Of the other tables only the rows that belong to the removed
\* entity go, by the cascade of its relationships.)
C19_DeleteRemoves ==
    (Did({"delete"}) /\ Len(StoredWith(operation.before, operation.key)) > 0) =>
        LET old == StoredWith(operation.before, operation.key)[1]
        IN  /\ operation.raised = ""
            /\ operation.value = <<old>>
            /\ session[StorageTable] =
                   SelectSeq(operation.before[StorageTable], LAMBDA r : r # old)
            /\ Len(session[StorageTable]) = Len(operation.before[StorageTable]) - 1
            /\ \A c \in Tables \ {StorageTable} :
                  session[c] = SelectSeq(operation.before[c],
                                         LAMBDA r : ~(StorageTable = "Model" /\ r.model_id = old.attr))
            /\ ~StorageContains(storage, session, operation.identity)
            /\ StorageGet(storage, session, operation.identity, <<>>).raised = "NotFoundError"

\* delete removed one of two entities that agree in their first key column,
\* and the other is still stored.
C19_Witness ==
    /\ Did({"delete"})
    /\ operation.raised = ""
    /\ Len(StoredWith(operation.before, operation.key)) > 0
    /\ \E r \in Range(session[StorageTable]) : r.attr = operation.value[1].attr

\* delete removed an entity of Model that had a related row.
C19_WitnessCascade ==
    /\ Did({"delete"})
    /\ operation.raised = ""
    /\ Len(StoredWith(operation.before, operation.key)) > 0
    /\ Len(session["RelatedToModel"]) < Len(operation.before["RelatedToModel"])

-----------------------------------------------------------------------------
(* Properties of count.                                                    *)

\* count was called with a bag that has no page descriptor.
CountedUnpaged ==
    /\ operation.name = "count"
    /\ ~DictHas(operation.kwargs, S("page_params"))

\* The list operation for the bag and the database of the operation just called.
Listed == DatabaseIndexGet(storage, operation.before, operation.kwargs)

CountIsLengthOfListWithoutJoin ==
    (CountedUnpaged /\ Len(operation.executed.joins) = 0) =>
        /\ operation.raised = Listed.raised
        /\ operation.raised = "" => operation.count = Len(Listed.value)

\* count of a tuple of columns agreed with the list of two rows.
CountedColumns ==
    /\ CountedUnpaged
    /\ storage.entity = "columns"
    /\ operation.raised = ""
    /\ operation.count = 2
    /\ Len(Listed.value) = 2

-----------------------------------------------------------------------------
(* Properties of a mapping over its lifetime.                              *)

\* The mapping object the constructor call c builds (or the exception).
ConstructedBy(c) ==
    CASE c.cls = "FilterMap" -> FilterMapInit(c.args[1], c.args[2])
      [] c.cls = "OrderByMap" -> OrderByMapInit(c.args[1], c.args[2])
      [] c.cls = "NullFilterMap" -> NullFilterMapInit(c.args[1], c.args[2], c.args[3])
      [] c.cls = "JoinMap" -> JoinMapInit(c.args)
      [] c.cls = "PaginationMap" ->
            PaginationMapInit(c.args[1], c.args[2], c.args[3], c.args[4])
      [] OTHER -> NoVisitor

C21_WitnessRaised ==
    /\ call.called
    /\ call.raised = "NullFilterException"
    /\ visitor.kind = "NullFilterMap"

-----------------------------------------------------------------------------
(* Properties of a shared mapping.                                         *)

\* The outcome of the call of a request, had it run alone.
Alone(req) == VisitStatement(visitor, requests[req].statement, requests[req].params)

\* C22: whatever the interleaving of the steps of the concurrent requests on
\* one mapping, each request's call returns the query (or raises the error,
\* with the message) that the same call returns when it runs alone.
C22_InterleavingsAgree ==
    \A req \in DOMAIN requests :
        requests[req].pc = "done" =>
            /\ requests[req].raised = Alone(req).raised
            /\ requests[req].message = Alone(req).message
            /\ requests[req].result = Alone(req).result

\* Two calls with different bags were in progress at once, each having
\* yielded a clause, and one has returned.
C22_Witness ==
    \E p, q \in DOMAIN requests :
        /\ requests[p].pc = "done" /\ requests[p].raised = ""
        /\ Len(requests[p].yielded) > 0
        /\ requests[q].pc = "running"
        /\ Len(requests[q].yielded) > 0
        /\ requests[q].params # requests[p].params

\* A call raised while another was in progress.
C22_WitnessRaised ==
    \E p, q \in DOMAIN requests :
        /\ requests[p].pc = "done" /\ requests[p].raised # ""
        /\ requests[q].pc = "running"
        /\ Len(requests[q].yielded) > 0

-----------------------------------------------------------------------------
(* Properties of path resolution.                                          *)

\* The configuration a constructor call gives: the entries of its dict.
ConfigOf(c) ==
    IF c.cls = "JoinMap"
    THEN IF Len(c.args) = 2 /\ c.args[1].t = "dict" THEN c.args[1].attrs ELSE <<>>
    ELSE c.args[1]

\* The constructor call configures paths only: every value is a str, or a
\* tuple that starts with one, and a JoinMap is called as its signature says.
ConfiguresPaths ==
    /\ init.cls \in PathMappings
    /\ init.cls = "JoinMap" => Len(init.args) = 2 /\ init.args[1].t = "dict"
    /\ \A i \in DOMAIN ConfigOf(init) : TargetOf(ConfigOf(init)[i][2]).t = "str"

\* The object sequential lookup reaches for a path that resolves: segment 1
\* on the namespace, each following segment on the object before it.
SequentialLookup(target) ==
    LET segments == Split(target, ".")
        names == [i \in DOMAIN segments |-> segments[i][1]]
    IN  IF names = <<"PageParams", "__init__", "__doc__">> THEN PyNone ELSE PyObj(names)

\* The reference a constructed mapping holds for entry i of its configuration.
ResolvedFor(i) ==
    CASE visitor.kind = "FilterMap" -> visitor.filters[i][2].items[1]
      [] visitor.kind = "NullFilterMap" -> visitor.filters[i][2]
      [] visitor.kind = "OrderByMap" -> visitor.order_by_attributes[i][2]
      [] visitor.kind = "JoinMap" -> visitor.joins[i][2][1]

\* C23: for FilterMap, NullFilterMap, OrderByMap and JoinMap, given the
\* namespace as a module name or as the module, every configured path of one
\* or more segments is resolved by sequential lookup (segment 1 on the
\* namespace, each following one on the object before it and never again on
\* the namespace), and construction raises if a segment is missing.
C23_SequentialResolution ==
    ConfiguresPaths =>
        LET config == ConfigOf(init)
            target(i) == TargetOf(config[i][2]).s
        IN  IF \E i \in DOMAIN config : ~ResolvesInNamespace(target(i))
            THEN visitor.raised # ""
            ELSE /\ visitor.raised = ""
                 /\ \A i \in DOMAIN config : ResolvedFor(i) = SequentialLookup(target(i))

\* The same statement for paths that do not lead through a falsy object,
\* for OrderByMap for paths of exactly two segments, and for JoinMap for the
\* namespace given as a module name.
SequentialResolutionOfTruthyPaths ==
    (/\ ConfiguresPaths
     /\ init.cls = "JoinMap" => init.args[2].t = "str"
     /\ \A i \in DOMAIN ConfigOf(init) :
            LET target == TargetOf(ConfigOf(init)[i][2]).s
            IN  /\ init.cls = "OrderByMap" => Len(Split(target, ".")) = 2
                /\ ~ThroughNone(target))
    => C23_SequentialResolution

\* A FilterMap was constructed for a path that leads through None.
ResolvedThroughNone ==
    /\ init.cls = "FilterMap"
    /\ visitor.raised = ""
    /\ Len(visitor.filters) = 1
    /\ ~ResolvesInNamespace(TargetOf(init.args[1][1][2]).s)
    /\ ResolvedFor(1) = PyObj(<<"Model", "attr">>)

-----------------------------------------------------------------------------
(* Properties of get with parameters.                                      *)

\* C24: get(identity, **params) raises NotFoundError only if the identity is
\* not contained in the storage as it was when get was called, whatever the
\* parameters the visitors handle.
C24_NotFoundOnlyIfAbsent ==
    (Did({"storage.get"}) /\ operation.raised = "NotFoundError") =>
        ~StorageContains(storage, operation.before, operation.identity)

\* The same statement for get without parameters.
NotFoundOnlyIfAbsentWithoutParams ==
    (Did({"storage.get"}) /\ operation.kwargs = <<>> /\ operation.raised = "NotFoundError") =>
        ~StorageContains(storage, operation.before, operation.identity)

\* get without parameters raised NotFoundError, and get with a filter raised
\* it for an identity that is contained.
GetRaisedNotFound ==
    /\ Did({"storage.get"})
    /\ operation.kwargs = <<>>
    /\ operation.raised = "NotFoundError"
GetFilteredAway ==
    /\ Did({"storage.get"})
    /\ DictKeys(operation.kwargs) = {S("attr3_like")}
    /\ operation.raised = "NotFoundError"
    /\ StorageContains(storage, operation.before, operation.identity)

-----------------------------------------------------------------------------
(* Properties of membership.                                               *)

\* C25: contains(identity) is true exactly when a stored entity has every
\* primary-key column equal to the corresponding component of the normalised
\* identity; an identity with fewer or more components than the key has
\* columns matches no entity: put with it does not raise ConflictError, get
\* returns nothing, and patch and delete change nothing.
C25_ContainsWholeKey ==
    /\ Did({"contains"}) =>
           (operation.found <=> Len(StoredWith(operation.before, operation.key)) > 0)
    /\ (/\ Did({"storage.get", "put", "patch", "delete"})
        /\ operation.kwargs = <<>>
        /\ Len(operation.key.items) # Len(storage._attr)) =>
           /\ operation.raised # "ConflictError"
           /\ operation.value = <<>>
           /\ operation.name \in {"patch", "delete"} => session = operation.before

\* The same statement of contains for identities that have as many components
\* as the primary key has columns.
ContainsWholeKeyOfKeyLength ==
    (Did({"contains"}) /\ Len(operation.key.items) = Len(storage._attr)) =>
        (operation.found <=> Len(StoredWith(operation.before, operation.key)) > 0)

\* contains was true of an identity of the key's length and false of another,
\* and it was true of an identity shorter than the key.
ContainsFound ==
    /\ Did({"contains"})
    /\ Len(operation.key.items) = Len(storage._attr)
    /\ operation.found
ContainsNotFound ==
    /\ Did({"contains"})
    /\ Len(operation.key.items) = Len(storage._attr)
    /\ ~operation.found
    /\ Len(operation.before[StorageTable]) > 0
ContainsPartialMatch ==
    /\ Did({"contains"})
    /\ Len(operation.key.items) < Len(storage._attr)
    /\ operation.found
    /\ Len(StoredWith(operation.before, operation.key)) = 0

-----------------------------------------------------------------------------
(* Properties of patch and the identity.                                   *)

\* What patch leaves of the identity: it did not raise NotFoundError, the
\* identity is still contained, and an entity it returned has the identity
\* as its primary key.
IdentityKept ==
    /\ operation.raised # "NotFoundError"
    /\ StorageContains(storage, session, operation.identity)
    /\ operation.raised = "" =>
           /\ Len(operation.value) = 1
           /\ KeyOf(StorageTable, operation.value[1]) = operation.key.items

\* C26: patch(identity, data) on a stored identity never raises NotFoundError
\* and never changes the entity's identity, whatever data is, data that names
\* a primary-key column with a different value included: afterwards the
\* identity is still contained and the returned entity's primary key equals
\* the identity.
C26_PatchKeepsIdentity ==
    (Did({"patch"}) /\ Len(StoredWith(operation.before, operation.key)) > 0) => IdentityKept

\* The same statement for data that gives no key column a new value.
PatchKeepsIdentityKeepingKey ==
    (/\ Did({"patch"})
     /\ Len(StoredWith(operation.before, operation.key)) > 0
     /\ \A i \in DOMAIN storage._attr :
           DictHas(operation.data, storage._attr[i]) =>
               DictGet(operation.data, storage._attr[i]) = operation.key.items[i]) => IdentityKept

\* patch moved a stored entity to another key and then failed to fetch it.
PatchMovedEntity ==
    /\ Did({"patch"})
    /\ Len(StoredWith(operation.before, operation.key)) > 0
    /\ operation.raised = "NotFoundError"
    /\ session # operation.before
    /\ ~StorageContains(storage, session, operation.identity)
\* patch was called on a stored entity with data the schema rejects.
PatchRejectedData ==
    /\ Did({"patch"})
    /\ Len(StoredWith(operation.before, operation.key)) > 0
    /\ operation.raised = "ValidationError"

-----------------------------------------------------------------------------
(* Properties of a storage over a sequence of operations.                  *)

\* No two rows of a table have the same primary key.
UniqueKeys ==
    \A c \in Tables : \A i, j \in DOMAIN session[c] :
        KeyOf(c, session[c][i]) = KeyOf(c, session[c][j]) => i = j

\* A step in which an operation is called on the storage and runs to its end.
OperationStep ==
    /\ storage.cls = "DatabaseStorage"
    /\ operation.name = ""
    /\ operation'.name # ""

\* The step is a successful call of one of the names with the identity.
Succeeded(names, identity) ==
    /\ operation'.name \in names
    /\ operation'.raised = ""
    /\ operation'.key = ConvertIdentity(identity)

\* Over the step the identity is contained exactly when the step is a
\* successful put of it, or it was contained before and the step is not a
\* successful delete of it.
ContainedByPutUntilDelete(identity) ==
    StorageContains(storage, session', identity) <=>
        \/ Succeeded({"put"}, identity)
        \/ /\ StorageContains(storage, session, identity)
           /\ ~Succeeded({"delete"}, identity)

\* C27: after any sequence of operations run one at a time on a consistent
\* storage, no two stored entities have the same primary-key tuple, and an
\* identity is contained exactly when its last successful put is not followed
\* by a successful delete of it: every operation leaves contained what was
\* contained, except a successful delete of that identity, and makes
\* contained only the identity of a successful put.
C27_ContainedSincePut ==
    /\ []UniqueKeys
    /\ [][OperationStep => \A identity \in Identities : ContainedByPutUntilDelete(identity)]_vars

\* The same statement for the identities and the operations on identities
\* that have as many components as the primary key has columns, and for
\* patches whose data gives no key column a new value.
ContainedSincePutOfKeyLength ==
    [][(/\ OperationStep
        /\ Len(operation'.key.items) = Len(storage._attr)
        /\ operation'.name = "patch" =>
              \A i \in DOMAIN storage._attr :
                 DictHas(operation'.data, storage._attr[i]) =>
                     DictGet(operation'.data, storage._attr[i]) = operation'.key.items[i])
           => \A identity \in Identities :
                 Len(ConvertIdentity(identity).items) = Len(storage._attr) =>
                     ContainedByPutUntilDelete(identity)]_vars

\* An identity put earlier in the sequence and not deleted is contained two
\* operations later, and a deleted identity is not.
StillContainedAfterPut ==
    /\ Did({"contains"})
    /\ operation.found
    /\ Len(operation.key.items) = Len(storage._attr)
    /\ Len(StoredWith(transaction.committed, operation.key)) = 0
StillAbsentAfterDelete ==
    /\ Did({"contains"})
    /\ ~operation.found
    /\ Len(operation.key.items) = Len(storage._attr)
    /\ Len(StoredWith(transaction.committed, operation.key)) > 0

-----------------------------------------------------------------------------
(* Properties of the order of outcomes over one identity.                  *)

\* What the operations on an identity would do on a database: every put of
\* it raises ConflictError; or get, patch and delete of it raise
\* NotFoundError and no put of it raises ConflictError.
Conflicting(db, identity) ==
    \A data \in Datas : StoragePut(storage, db, identity, data).raised = "ConflictError"
NotFound(db, identity) ==
    /\ StorageGet(storage, db, identity, <<>>).raised = "NotFoundError"
    /\ StorageDelete(storage, db, identity).raised = "NotFoundError"
    /\ \A data \in Datas :
          /\ StoragePatch(storage, db, transaction.committed, identity, data).raised
                 = "NotFoundError"
          /\ StoragePut(storage, db, identity, data).raised # "ConflictError"

\* Over a step: a successful put of the identity leaves it conflicting, and
\* it stays so over every operation but a successful delete of it; a
\* successful delete leaves it not found, and it stays so over every
\* operation but a successful put of it.
OutcomesInOrder(identity) ==
    /\ Succeeded({"put"}, identity) => Conflicting(session', identity)
    /\ (Conflicting(session, identity) /\ ~Succeeded({"delete"}, identity))
           => Conflicting(session', identity)
    /\ Succeeded({"delete"}, identity) => NotFound(session', identity)
    /\ (NotFound(session, identity) /\ ~Succeeded({"put"}, identity))
           => NotFound(session', identity)

\* C28: after a successful put(i, d) every further put(i, d') raises
\* ConflictError until a delete(i) succeeds; after a successful delete(i)
\* every get(i), patch(i, d) and delete(i) raises NotFoundError until a
\* put(i, d) succeeds, and that put does not raise ConflictError.
C28_OutcomesInOrder ==
    [][OperationStep => \A identity \in Identities : OutcomesInOrder(identity)]_vars

\* The same statement for the identities and the operations on identities
\* that have as many components as the primary key has columns, and for
\* patches whose data gives no key column a new value.
OutcomesInOrderOfKeyLength ==
    [][(/\ OperationStep
        /\ Len(operation'.key.items) = Len(storage._attr)
        /\ operation'.name = "patch" =>
              \A i \in DOMAIN storage._attr :
                 DictHas(operation'.data, storage._attr[i]) =>
                     DictGet(operation'.data, storage._attr[i]) = operation'.key.items[i])
           => \A identity \in Identities :
                 Len(ConvertIdentity(identity).items) = Len(storage._attr) =>
                     OutcomesInOrder(identity)]_vars

\* put raised ConflictError for an identity put earlier in the transaction,
\* and get raised NotFoundError for one deleted earlier in it.
ConflictAfterPut ==
    /\ Did({"put"})
    /\ operation.raised = "ConflictError"
    /\ Len(operation.key.items) = Len(storage._attr)
    /\ Len(StoredWith(transaction.committed, operation.key)) = 0
NotFoundAfterDelete ==
    /\ Did({"storage.get", "patch", "delete"})
    /\ operation.raised = "NotFoundError"
    /\ Len(operation.key.items) = Len(storage._attr)
    /\ Len(StoredWith(transaction.committed, operation.key)) > 0
    /\ session = operation.before
\* get returned an entity for an identity after a delete of that identity had
\* succeeded and no put.
FoundAfterDelete ==
    /\ Did({"storage.get"})
    /\ operation.raised = ""
    /\ operation.identity = PyInt(1)
    /\ storage.entity = "CompositePkModel"
    /\ Len(session[StorageTable]) = 1
    /\ Len(transaction.committed[StorageTable]) = 2

-----------------------------------------------------------------------------
(* Properties of count under pagination.                                   *)

\* C29: count(**params) returns an integer for every bag for which the list
\* operation with the same bag succeeds on the same database, a bag with a
\* page descriptor whose first item is 1 or more included, when a
\* PaginationMap is among the visitors.
C29_CountSucceedsWhereListDoes ==
    (operation.name = "count" /\ Listed.raised = "") => operation.raised = ""

\* The same statement for bags whose page descriptor, if they have one,
\* starts at the first item or is handled by no visitor.
CountSucceedsWhereListDoesWithoutOffset ==
    (/\ operation.name = "count"
     /\ Listed.raised = ""
     /\ operation.executed.offset \in {PyNone, PyInt(0)}) => operation.raised = ""

\* count was called with a page that starts at the first item, and with one
\* that starts later, on an index that has a PaginationMap.
CountedFirstPage ==
    /\ operation.name = "count"
    /\ operation.executed.offset = PyInt(0)
    /\ operation.raised = ""
CountedLaterPage ==
    /\ operation.name = "count"
    /\ operation.executed.offset = PyInt(1)
    /\ Listed.raised = ""
    /\ operation.raised = "NoResultFound"

-----------------------------------------------------------------------------
(* Properties of empty and padded order_by tokens.                         *)

\* The tokens of the order_by value whose name is the empty str (the token is
\* empty or a lone "-"), and those whose name has a blank in it.
EmptyNamed == {i \in DOMAIN OrderByTokens : NameOf(OrderByTokens[i]) = <<>>}
Padded == {i \in DOMAIN OrderByTokens : " " \in Range(NameOf(OrderByTokens[i]))}

\* C30: an order_by value with a token of the empty name (the empty str, a
\* lone "-", a leading, trailing or doubled comma) makes OrderByMap.
\* visit_statement raise OrderByException, for the empty name when no unknown
\* name comes before it, and order_by is never called on the query; unless
\* the empty str is a configured public name, and then the token is ordered
\* by like any other.  Tokens are compared as they are, blanks included: a
\* token with a blank in its name is an unknown name, so "a, b" is rejected
\* for " b" where b is configured.
C30_EmptyTokenRejected ==
    HasOrderBy =>
        LET unknown == {i \in DOMAIN OrderByTokens :
                           ~DictHas(init.args[1], NameOf(OrderByTokens[i]))}
            rejected == (IF DictHas(init.args[1], <<>>) THEN {} ELSE EmptyNamed) \cup Padded
            known == EmptyNamed \ unknown
        IN  /\ rejected \subseteq unknown
            /\ rejected # {} =>
                  /\ call.raised = "OrderByException"
                  /\ call.calls = <<>>
                  /\ call.result = NoStatement
                  /\ \A i \in rejected :
                        (\A j \in unknown : i <= j) =>
                            call.message = <<"Unknown order_by attribute: ">>
                                           \o NameOf(OrderByTokens[i])
            /\ (unknown = {} /\ known # {}) =>
                  /\ call.raised = ""
                  /\ Len(call.calls) = 1
                  /\ Len(call.calls[1].args) = Len(OrderByTokens)
                  /\ \A i \in known :
                        call.calls[1].args[i] \in
                            {OrderByTarget(init.args[1], <<>>),
                             UnaryExpression("desc_op", OrderByTarget(init.args[1], <<>>))}

\* C30 happens: order_by="a,,b" against {a, b} raises for the empty name.
C30_Witness ==
    /\ HasOrderBy
    /\ OrderByValue = <<"a", ",", ",", "b">>
    /\ DictKeys(visitor.order_by_attributes) = {S("a"), S("b")}
    /\ call.raised = "OrderByException"
    /\ call.message = <<"Unknown order_by attribute: ">>
    /\ call.calls = <<>>
\* order_by="" and order_by="-" raise for the empty name.
C30_WitnessEmptyValue ==
    /\ HasOrderBy
    /\ OrderByValue \in {<<>>, <<"-">>}
    /\ call.raised = "OrderByException"
    /\ call.message = <<"Unknown order_by attribute: ">>
\* order_by="a, b" against {a, b} raises for " b".
C30_WitnessPadded ==
    /\ HasOrderBy
    /\ OrderByValue = <<"a", ",", " ", "b">>
    /\ DictKeys(visitor.order_by_attributes) = {S("a"), S("b")}
    /\ call.raised = "OrderByException"
    /\ call.message = <<"Unknown order_by attribute: ", " ", "b">>
    /\ call.calls = <<>>
\* order_by="b," against a configuration that has the empty str as a public
\* name orders by b and then by the target of the empty name.
C30_WitnessConfigured ==
    /\ HasOrderBy
    /\ OrderByValue = <<"b", ",">>
    /\ DictHas(visitor.order_by_attributes, <<>>)
    /\ call.raised = ""
    /\ call.calls = <<MethodCall("order_by",
            <<PyObj(<<"Model", "attr2">>), PyObj(<<"Model", "attr">>)>>)>>

=============================================================================
